---------------------------- MODULE Spec2Model ----------------------------
(***************************************************************************)
(* A model of the MediaEditor core engine.                                 *)
(*                                                                         *)
(* Part 1: the event stack (src/EventStackFilter.cpp): EventStack_Base,    *)
(* Event_Base, VideoEventStackFilter_Impl and VideoEvent_Impl.             *)
(* Part 2: the video track (src/VideoTrack.cpp): DataLayer::VideoTrack.    *)
(* Part 3: the project (src/MecProject.cpp): MEC::Project.                 *)
(* Part 4: the decode pipeline of the player                               *)
(* (src/MediaPlayer_FFImpl.cpp): the threads and their queues.             *)
(***************************************************************************)
EXTENDS Integers, Sequences, FiniteSets, TLC

(***************************************************************************)
(* Bounds of the model.                                                    *)
(***************************************************************************)
\* Event times (milliseconds in the code, int64_t) are drawn from 0..MaxTime.
MaxTime == 2
\* The event list holds at most MaxEvents events.
MaxEvents == 2
\* A mask array holds at most MaxMasks entries.
MaxMasks == 2

\* A clip of a track starts in 0..MaxClipStart.
MaxClipStart == 2
\* At most MaxThrown calls of MoveClip and ChangeClipRange throw after they
\* have changed the clip.
MaxThrown == 1

\* The queue maxima of the player, scaled down: the video packet queue (at
\* least 20 in the code), the audio packet queue (64), the video frame
\* queue (4), the audio frame queue (5 at the start) and the resampled
\* frame queue (24 at the start).
VidPktQMaxSize == 2
AudPktQMaxSize == 2
VidFrmQMaxSize == 2
AudFrmQMaxSize == 2
SwrFrmQMaxSize == 2

Times == 0..MaxTime
Ids == {1, 2, 3}
Zs == {0, 1}
NodeIds == {1, 2}

VARIABLES
    m_eventList,    \* EventStack_Base::m_eventList, a sequence of events
    call,           \* the last public call: its name, what it returned, its output
    mut             \* a mutation in progress on another thread (no lock is taken)

\* DataLayer::VideoTrack
VARIABLES
    m_clips,            \* the clips, a sequence (std::list) kept sorted by start
    m_overlaps,         \* the overlap records, a sequence kept sorted by start
    m_duration,         \* the track duration
    m_readClipIter,     \* the clip read cursor, an iterator of m_clips
    m_readOverlapIter,  \* the overlap read cursor, an iterator of m_overlaps
    m_readFrames,       \* the index of the next frame to read
    m_readForward,      \* the read direction
    m_frameRate,        \* the frame rate, [num, den]
    thrown,             \* how many MoveClip / ChangeClipRange calls have thrown
    lastFrame           \* the time stamp of the frame the caller got last since
                        \* the last seek or change of direction, if any

trackVars ==
    <<m_clips, m_overlaps, m_duration, m_readClipIter, m_readOverlapIter,
      m_readFrames, m_readForward, m_frameRate, thrown, lastFrame>>

\* Part 3: the project (src/MecProject.cpp, class MEC::Project) and the
\* file system it reads and writes.
VARIABLES
    m_bOpened,          \* a project is open
    m_projName,         \* its name
    m_projDir,          \* its directory, a path
    m_projFilePath,     \* its file, a path
    m_projVer,          \* its version tag
    m_jnProjContent,    \* its content tree, a JSON value
    fs                  \* the file system: what there is at each path

projVars ==
    <<m_bOpened, m_projName, m_projDir, m_projFilePath, m_projVer,
      m_jnProjContent, fs>>

\* Part 4: the decode pipeline of the player (src/MediaPlayer_FFImpl.cpp).
\* A queue is modelled by its length.
VARIABLES
    streams,            \* the source: [video, audio], HasVideo() and HasAudio()
    m_vidpktQ,          \* video packet queue
    m_audpktQ,          \* audio packet queue
    m_vidfrmQ,          \* video frame queue
    m_audfrmQ,          \* audio frame queue
    m_swrfrmQ,          \* resampled frame queue
    qMaxSize,           \* [vidpkt, audpkt, vidfrm, audfrm, swrfrm]: m_vidpktQMaxSize,
                        \* m_audpktQMaxSize, m_vidfrmQMaxSize, m_audfrmQMaxSize,
                        \* m_swrfrmQMaxSize
    pushMax,            \* [audfrm, swrfrm]: the maximum in force at the last push
    demux,              \* DemuxThreadProc: [avpktLoaded, stream, m_demuxEof]
    viddec,             \* VideoDecodeThreadProc: [avfrmLoaded, pending, phase]
    auddec              \* AudioDecodeThreadProc: [avfrmLoaded, pending, phase]

playerVars ==
    <<streams, m_vidpktQ, m_audpktQ, m_vidfrmQ, m_audfrmQ, m_swrfrmQ, qMaxSize,
      pushMax, demux, viddec, auddec>>

\* The player's control state, src/MediaPlayer_FFImpl.cpp: the members the
\* public calls and the threads share, the threads themselves, and the
\* clock. A time is a number of milliseconds; CLOCK_MIN and INT64_MIN are
\* modelled by -1, which no time and no position takes.
VARIABLES
    m_avfmtCtx,             \* a media is opened: IsOpened()
    m_quitPlay,             \* the quit flag every thread loop tests
    m_isPlaying,
    m_isAfterSeek,
    m_isSeekToI,
    m_seekToMts,
    m_isSeeking,
    m_asyncSeekPos,
    m_isPlayingBeforeSeek,
    m_errMessage,           \* "" or the function SetFFError names
    m_demuxThread,          \* each thread: [proc, pc]; proc "none": not joinable
    m_viddecThread,
    m_auddecThread,
    m_audswrThread,
    m_renderThread,
    api,                    \* the public call in progress (it holds m_ctlLock)
    pts,                    \* [vid, aud]: the time stamp of the frame each codec gives next;
                            \* win: the position the scrubbing demuxer reads around
    avfrm,                  \* [vid, aud]: the time stamp of the frame each decode thread holds
    now,                    \* Clock::now()
    m_runStartTp,
    m_pauseStartTp,
    m_pausedDur,
    m_posOffset,
    m_playPos,
    hist                    \* history: what the last seek asked for and what followed

flagVars ==
    <<m_avfmtCtx, m_quitPlay, m_isPlaying, m_isAfterSeek, m_isSeekToI, m_seekToMts,
      m_isSeeking, m_asyncSeekPos, m_isPlayingBeforeSeek, m_errMessage>>

threadVars ==
    <<m_demuxThread, m_viddecThread, m_auddecThread, m_audswrThread, m_renderThread>>

clockVars == <<now, m_runStartTp, m_pauseStartTp, m_pausedDur, m_posOffset, m_playPos>>

ctlVars == <<flagVars, threadVars, clockVars, api, pts, avfrm, hist>>

\* The frame cache of the scrubbing render thread, the locals of
\* RenderThreadProc_SeekAsync (src/MediaPlayer_FFImpl.cpp, lines 1323-1328)
\* and the frame it publishes.
VARIABLES
    rc,     \* [vidMatCache, cacheIter, prevSeekPos, currSeekPos,
            \*  prevCachedTimestamp, cacheUpdated, m_vidMat, pc, k, fed, spacing]
    au,     \* the audio frames one by one: [m_audfrmQ, m_swrfrmQ,
            \*  m_unconsumedAudfrm, m_swrPassThrough, freed, made, fault,
            \*  threads, device, isPlaying, read, ctl]
    ovw     \* the media overview: [m_opened, hasVideo, m_ssCount,
            \*  m_snapshots, m_vidpktQ, m_vidfrmQ, codec, flushed, m_quitScan,
            \*  m_demuxEof, m_viddecEof, m_genSsEof, demux, viddec, genss]

auxVars == <<rc, au, ovw>>

\* The variables that are not the event stack's.
notStackVars == <<trackVars, projVars, playerVars, ctlVars, auxVars>>

\* The variables that are not the track's.
notTrackVars == <<m_eventList, mut, projVars, playerVars, ctlVars, auxVars>>

\* The variables that are not the project's.
notProjVars == <<m_eventList, mut, trackVars, playerVars, ctlVars, auxVars>>

\* The variables that are not the player's queues and decode state.
notPlayerVars == <<m_eventList, mut, trackVars, projVars, ctlVars, auxVars>>

\* The variables that are not the player's at all.
notEngineVars == <<m_eventList, mut, trackVars, projVars, auxVars>>

vars == <<m_eventList, call, mut, trackVars, projVars, playerVars, ctlVars, auxVars>>

(***************************************************************************)
(* Helpers.                                                                *)
(***************************************************************************)
Min(a, b) == IF a < b THEN a ELSE b
Max(a, b) == IF a < b THEN b ELSE a

Range(s) == {s[i] : i \in DOMAIN s}

\* The sequence s without its element at index i.
EraseAt(s, i) == [k \in 1..(Len(s) - 1) |-> IF k < i THEN s[k] ELSE s[k + 1]]

\* The sequence s with x put in front of the element at index i.
InsertAt(s, i, x) ==
    [k \in 1..(Len(s) + 1) |-> IF k < i THEN s[k] ELSE IF k = i THEN x ELSE s[k - 1]]

(***************************************************************************)
(* imgui_json::number is a double: an int64_t written to JSON and read     *)
(* back is exact only up to 2^53 in magnitude. TLC's integers are 32 bits  *)
(* wide, so the limit is narrowed to 2^30; above it the low bit is lost,   *)
(* as it is for a double just above 2^53.                                  *)
(***************************************************************************)
DoubleExactLimit == 1073741824

JsonNumber(n) ==
    IF n <= DoubleExactLimit /\ n >= -DoubleExactLimit THEN n ELSE (n \div 2) * 2

(***************************************************************************)
(* A comparison of an int with a container's size() converts the int to    *)
(* size_t: a negative index becomes a huge unsigned value. The width is    *)
(* narrowed from 64 to 30 bits for TLC.                                    *)
(***************************************************************************)
SizeTModulus == 1073741824

ToSizeT(i) == i % SizeTModulus

(***************************************************************************)
(* Event_Base.                                                             *)
(***************************************************************************)
NoMaskTable == [n \in {} |-> <<>>]

\* Event_Base::Event_Base(owner, id, start, end, z, bpCallbacks), through
\* VideoEventStackFilter_Impl::CreateNewEvent.
CreateNewEvent(id, start, end, z) ==
    [m_id |-> id, m_start |-> start, m_end |-> end, m_z |-> z,
     m_ajnEventMasks |-> <<>>, m_amEventMasks |-> <<>>,
     m_mapEffectMaskTable |-> NoMaskTable]

\* IsInRange with the end of the range included.
IsInRange_Closed(e, pos) == pos >= e.m_start /\ pos <= e.m_end

IsInRange(e, pos) == pos >= e.m_start /\ pos < e.m_end

\* Event::CheckEventOverlapped (declared in EventStackFilter.h).
CheckEventOverlapped(e, start, end, z) ==
    /\ z = e.m_z
    /\ ~(e.m_end <= start \/ end <= e.m_start)

\* Event::EVENT_ORDER_COMPARATOR (declared in EventStackFilter.h).
EVENT_ORDER_COMPARATOR(a, b) ==
    \/ a.m_z < b.m_z
    \/ (a.m_z = b.m_z /\ a.m_start < b.m_start)

\* EventStack_Base::EVENTLIST_COMPARATOR
EVENTLIST_COMPARATOR(a, b) == EVENT_ORDER_COMPARATOR(a, b)

(***************************************************************************)
(* m_eventList.sort(EVENTLIST_COMPARATOR): std::list::sort is stable.      *)
(***************************************************************************)
\* Where x goes in the sorted sequence s: in front of the first element
\* that x is less than.
SortedPos(s, x) ==
    IF \E k \in 1..Len(s) : EVENTLIST_COMPARATOR(x, s[k])
    THEN CHOOSE k \in 1..Len(s) :
            /\ EVENTLIST_COMPARATOR(x, s[k])
            /\ \A j \in 1..(k - 1) : ~EVENTLIST_COMPARATOR(x, s[j])
    ELSE Len(s) + 1

RECURSIVE SortPrefix(_, _)
SortPrefix(s, n) ==
    IF n = 0 THEN <<>>
    ELSE LET done == SortPrefix(s, n - 1)
         IN  InsertAt(done, SortedPos(done, s[n]), s[n])

SortEventList(s) == SortPrefix(s, Len(s))

(***************************************************************************)
(* EventStack_Base. Each operation is a function of the event list and the *)
(* arguments that gives the returned value and the event list afterwards.  *)
(***************************************************************************)
\* EventStack_Base::GetEvent: the index of the first event with that id, 0
\* for nullptr.
GetEvent(L, id) ==
    IF \E i \in 1..Len(L) : L[i].m_id = id
    THEN CHOOSE i \in 1..Len(L) :
            /\ L[i].m_id = id
            /\ \A j \in 1..(i - 1) : L[j].m_id # id
    ELSE 0

\* AddNewEvent without the swap of end < start.
AddNewEvent_NoSwap(L, id, start, end, z) ==
    IF start = end THEN [ret |-> FALSE, list |-> L]
    ELSE IF GetEvent(L, id) # 0 THEN [ret |-> FALSE, list |-> L]
    ELSE IF \E i \in 1..Len(L) : CheckEventOverlapped(L[i], start, end, z)
         THEN [ret |-> FALSE, list |-> L]
         ELSE [ret |-> TRUE,
               list |-> SortEventList(Append(L, CreateNewEvent(id, start, end, z)))]

AddNewEvent(L, id, start, end, z) ==
    IF start = end THEN [ret |-> FALSE, list |-> L]
    ELSE IF GetEvent(L, id) # 0 THEN [ret |-> FALSE, list |-> L]
    ELSE LET s == IF end < start THEN end ELSE start
             e == IF end < start THEN start ELSE end
         IN  IF \E i \in 1..Len(L) : CheckEventOverlapped(L[i], s, e, z)
             THEN [ret |-> FALSE, list |-> L]
             ELSE [ret |-> TRUE,
                   list |-> SortEventList(Append(L, CreateNewEvent(id, s, e, z)))]

RemoveEvent(L, id) ==
    LET i == GetEvent(L, id)
    IN  IF i # 0 THEN [ret |-> TRUE, list |-> EraseAt(L, i)]
        ELSE [ret |-> TRUE, list |-> L]

\* ChangeEventRange that sets the range before it looks for an overlap.
ChangeEventRange_SetFirst(L, id, start, end) ==
    IF start = end THEN [ret |-> FALSE, list |-> L]
    ELSE LET s == IF end < start THEN end ELSE start
             e == IF end < start THEN start ELSE end
             i == GetEvent(L, id)
         IN  IF i = 0 THEN [ret |-> FALSE, list |-> L]
             ELSE [ret |-> ~(\E k \in 1..Len(L) :
                               /\ L[k].m_id # id
                               /\ CheckEventOverlapped(L[k], s, e, L[i].m_z)),
                   list |-> SortEventList(
                       [L EXCEPT ![i].m_start = s, ![i].m_end = e])]

ChangeEventRange(L, id, start, end) ==
    IF start = end THEN [ret |-> FALSE, list |-> L]
    ELSE LET s == IF end < start THEN end ELSE start
             e == IF end < start THEN start ELSE end
             i == GetEvent(L, id)
         IN  IF i = 0 THEN [ret |-> FALSE, list |-> L]
             ELSE IF \E k \in 1..Len(L) :
                        /\ L[k].m_id # id
                        /\ CheckEventOverlapped(L[k], s, e, L[i].m_z)
             THEN [ret |-> FALSE, list |-> L]
             ELSE [ret |-> TRUE,
                   list |-> SortEventList(
                       [L EXCEPT ![i].m_start = s, ![i].m_end = e])]

\* MoveEvent that looks for an overlap on the event's old layer.
MoveEvent_OldZ(L, id, start, z) ==
    LET i == GetEvent(L, id)
    IN  IF i = 0 THEN [ret |-> FALSE, list |-> L]
        ELSE LET end == L[i].m_end + (start - L[i].m_start)
             IN  IF \E k \in 1..Len(L) :
                        /\ L[k].m_id # id
                        /\ CheckEventOverlapped(L[k], start, end, L[i].m_z)
                 THEN [ret |-> FALSE, list |-> L]
                 ELSE [ret |-> TRUE,
                       list |-> SortEventList(
                           [L EXCEPT ![i].m_start = start, ![i].m_end = end,
                                     ![i].m_z = z])]

MoveEvent(L, id, start, z) ==
    LET i == GetEvent(L, id)
    IN  IF i = 0 THEN [ret |-> FALSE, list |-> L]
        ELSE LET end == L[i].m_end + (start - L[i].m_start)
             IN  IF \E k \in 1..Len(L) :
                        /\ L[k].m_id # id
                        /\ CheckEventOverlapped(L[k], start, end, z)
                 THEN [ret |-> FALSE, list |-> L]
                 ELSE [ret |-> TRUE,
                       list |-> SortEventList(
                           [L EXCEPT ![i].m_start = start, ![i].m_end = end,
                                     ![i].m_z = z])]

MoveAllEvents(L, offset) ==
    [ret |-> TRUE,
     list |-> [k \in 1..Len(L) |->
                  [L[k] EXCEPT !.m_start = L[k].m_start + offset,
                               !.m_end = L[k].m_end + offset]]]

\* EventStack_Base::EnrollEvent
EnrollEvent(L, hEvt) ==
    IF \E k \in 1..Len(L) :
            \/ L[k].m_id = hEvt.m_id
            \/ CheckEventOverlapped(L[k], hEvt.m_start, hEvt.m_end, hEvt.m_z)
    THEN [ret |-> FALSE, list |-> L]
    ELSE [ret |-> TRUE, list |-> SortEventList(Append(L, hEvt))]

\* Event_Base::ChangeId, called on the event held at index i.
ChangeId(L, i, id) == [ret |-> TRUE, list |-> [L EXCEPT ![i].m_id = id]]

(***************************************************************************)
(* Masks of a video event (VideoEvent_Impl). A mask descriptor is a JSON   *)
(* value; ImGui::MaskCreator::LoadFromJson gives no creator (a null        *)
(* holder) for the descriptor "bad". A rendered alpha image is modelled by *)
(* the descriptor it was made from and by who made it.                     *)
(***************************************************************************)
Descs == {"rect", "oval", "bad"}

\* ImGui::MaskCreator::LoadFromJson(j) gives a creator.
MaskCreatorLoadFromJson(j) == j # "bad"

\* hMaskCreator->GetMask(AA, true, IM_DT_FLOAT32, 1, 0)
GetMask(j) == [of |-> j, by |-> "creator"]

\* The image *pmMask a caller hands to SaveMask together with descriptor j.
SuppliedMask(j) == [of |-> j, by |-> "caller"]

\* VideoEvent_Impl::SaveMask(j, pmMask, index). hasMat: pmMask is not null.
\* exc: "crash" for the dereference of a null creator, "out_of_range" for
\* the throw of vector::at.
SaveMask(e, j, hasMat, index) ==
    LET ajn == e.m_ajnEventMasks
        am == e.m_amEventMasks
    IN  IF ToSizeT(index) > Len(ajn)
        THEN [ret |-> FALSE, evt |-> e, exc |-> "none"]
        ELSE IF ~hasMat /\ ~MaskCreatorLoadFromJson(j)
        THEN [ret |-> FALSE, evt |-> e, exc |-> "crash"]
        ELSE LET mMask == IF hasMat THEN SuppliedMask(j) ELSE GetMask(j)
             IN  IF index < 0 \/ index = Len(ajn)
                 THEN [ret |-> TRUE,
                       evt |-> [e EXCEPT !.m_ajnEventMasks = Append(ajn, j),
                                         !.m_amEventMasks = Append(am, mMask)],
                       exc |-> "none"]
                 ELSE IF index >= Len(am)
                 THEN [ret |-> FALSE,
                       evt |-> [e EXCEPT !.m_ajnEventMasks[index + 1] = j],
                       exc |-> "out_of_range"]
                 ELSE [ret |-> TRUE,
                       evt |-> [e EXCEPT !.m_ajnEventMasks[index + 1] = j,
                                         !.m_amEventMasks[index + 1] = mMask],
                       exc |-> "none"]

\* VideoEvent_Impl::RemoveMask(index). Erasing at or past the end of
\* m_amEventMasks is undefined: the process is taken to crash.
RemoveMask(e, index) ==
    LET ajn == e.m_ajnEventMasks
        am == e.m_amEventMasks
    IN  IF ToSizeT(index) >= Len(ajn)
        THEN [ret |-> FALSE, evt |-> e, exc |-> "none"]
        ELSE IF index >= Len(am)
        THEN [ret |-> FALSE, evt |-> e, exc |-> "crash"]
        ELSE [ret |-> TRUE,
              evt |-> [e EXCEPT !.m_ajnEventMasks = EraseAt(ajn, index + 1),
                                !.m_amEventMasks = EraseAt(am, index + 1)],
              exc |-> "none"]

\* m_mapEffectMaskTable[nodeId] = masks
TableWith(tbl, nodeId, masks) ==
    [n \in (DOMAIN tbl) \cup {nodeId} |-> IF n = nodeId THEN masks ELSE tbl[n]]

\* VideoEvent_Impl::GetMaskCount(nodeId)
GetMaskCountOfNode(e, nodeId) ==
    IF nodeId \in DOMAIN e.m_mapEffectMaskTable
    THEN Len(e.m_mapEffectMaskTable[nodeId]) ELSE 0

\* VideoEvent_Impl::SaveMask(nodeId, j, index)
SaveMaskOfNode(e, nodeId, j, index) ==
    LET tbl == e.m_mapEffectMaskTable
        maskArySize == IF nodeId \in DOMAIN tbl THEN Len(tbl[nodeId]) ELSE 0
    IN  IF index > maskArySize
        THEN [ret |-> FALSE, evt |-> e, exc |-> "none"]
        ELSE LET tbl2 == IF nodeId \in DOMAIN tbl THEN tbl
                         ELSE TableWith(tbl, nodeId, <<>>)
                 masks == tbl2[nodeId]
             IN  IF ToSizeT(index) > Len(masks)
                 THEN [ret |-> FALSE,
                       evt |-> [e EXCEPT !.m_mapEffectMaskTable = tbl2],
                       exc |-> "none"]
                 ELSE IF index < 0 \/ index = Len(masks)
                 THEN [ret |-> TRUE,
                       evt |-> [e EXCEPT !.m_mapEffectMaskTable =
                                   TableWith(tbl2, nodeId, Append(masks, j))],
                       exc |-> "none"]
                 ELSE [ret |-> TRUE,
                       evt |-> [e EXCEPT !.m_mapEffectMaskTable =
                                   TableWith(tbl2, nodeId,
                                             [masks EXCEPT ![index + 1] = j])],
                       exc |-> "none"]

\* VideoEvent_Impl::RemoveMask(nodeId, index)
RemoveMaskOfNode(e, nodeId, index) ==
    LET tbl == e.m_mapEffectMaskTable
    IN  IF nodeId \notin DOMAIN tbl
        THEN [ret |-> FALSE, evt |-> e, exc |-> "none"]
        ELSE IF ToSizeT(index) >= Len(tbl[nodeId])
        THEN [ret |-> FALSE, evt |-> e, exc |-> "none"]
        ELSE [ret |-> TRUE,
              evt |-> [e EXCEPT !.m_mapEffectMaskTable =
                          TableWith(tbl, nodeId, EraseAt(tbl[nodeId], index + 1))],
              exc |-> "none"]

(***************************************************************************)
(* JSON. An event's JSON is a record: has is the set of keys present, the  *)
(* other fields are the values of the keys (read only when present).       *)
(***************************************************************************)
EventJsonKeys ==
    {"id", "start", "end", "z", "bp", "kp", "event_masks", "effect_mask_table"}

\* The sequence of the elements of a set of integers, ascending. The table
\* is an unordered_map: its iteration order is unspecified, and the load
\* emplaces each node id into a map again, so any order gives the same table.
RECURSIVE SetToSeq(_)
SetToSeq(S) ==
    IF S = {} THEN <<>>
    ELSE LET m == CHOOSE x \in S : \A y \in S : x <= y
         IN  <<m>> \o SetToSeq(S \ {m})

\* Event_Base::SaveAsJson and VideoEvent_Impl::SaveAsJson
VideoEvent_SaveAsJson(e) ==
    LET nodes == SetToSeq(DOMAIN e.m_mapEffectMaskTable)
    IN  [has |-> EventJsonKeys,
         id |-> JsonNumber(e.m_id),
         start |-> JsonNumber(e.m_start),
         end |-> JsonNumber(e.m_end),
         z |-> JsonNumber(e.m_z),
         bp |-> "valid",
         event_masks |-> e.m_ajnEventMasks,
         effect_mask_table |->
             [k \in 1..Len(nodes) |->
                 [node_id |-> JsonNumber(nodes[k]),
                  masks |-> e.m_mapEffectMaskTable[nodes[k]]]]]

\* The alpha images LoadFromJson renders: one for each descriptor that has
\* a mask creator, in order.
RECURSIVE RenderedMasks(_)
RenderedMasks(ajn) ==
    IF ajn = <<>> THEN <<>>
    ELSE IF MaskCreatorLoadFromJson(Head(ajn))
         THEN <<GetMask(Head(ajn))>> \o RenderedMasks(Tail(ajn))
         ELSE RenderedMasks(Tail(ajn))

\* m_mapEffectMaskTable.emplace(nodeId, masks) for each element in order:
\* emplace keeps the entry a key already has.
RECURSIVE EmplaceAll(_, _)
EmplaceAll(tbl, elems) ==
    IF elems = <<>> THEN tbl
    ELSE LET el == Head(elems)
         IN  EmplaceAll(IF el.node_id \in DOMAIN tbl THEN tbl
                        ELSE TableWith(tbl, el.node_id, el.masks),
                        Tail(elems))

\* VideoEvent_Impl::LoadFromJson: ok is FALSE for nullptr.
VideoEvent_LoadFromJson(json) ==
    IF ~({"id", "start", "end", "z", "bp"} \subseteq json.has)
    THEN [ok |-> FALSE, evt |-> CreateNewEvent(0, 0, 0, 0)]
    ELSE IF json.bp # "valid" \/ "kp" \notin json.has
    THEN [ok |-> FALSE, evt |-> CreateNewEvent(0, 0, 0, 0)]
    ELSE LET ajn == IF "event_masks" \in json.has THEN json.event_masks ELSE <<>>
             elems == IF "effect_mask_table" \in json.has
                      THEN json.effect_mask_table ELSE <<>>
         IN  [ok |-> TRUE,
              evt |-> [m_id |-> json.id, m_start |-> json.start,
                       m_end |-> json.end, m_z |-> json.z,
                       m_ajnEventMasks |-> ajn,
                       m_amEventMasks |-> RenderedMasks(ajn),
                       m_mapEffectMaskTable |-> EmplaceAll(NoMaskTable, elems)]]

\* VideoEventStackFilter_Impl::RestoreEventFromJson
RestoreEventFromJson(L, json) ==
    LET h == VideoEvent_LoadFromJson(json)
    IN  IF ~h.ok THEN [ret |-> FALSE, list |-> L]
        ELSE EnrollEvent(L, h.evt)

\* VideoEventStackFilter_Impl::SaveAsJson
Filter_SaveAsJson(L) ==
    [name |-> "EventStackFilter",
     events |-> [k \in 1..Len(L) |-> VideoEvent_SaveAsJson(L[k])]]

\* The loop of VideoEventStackFilter::LoadFromJson over the first n events
\* of the array: ok is FALSE once pFilter was deleted.
RECURSIVE LoadEvents(_, _)
LoadEvents(evtAry, n) ==
    IF n = 0 THEN [ok |-> TRUE, list |-> <<>>]
    ELSE LET before == LoadEvents(evtAry, n - 1)
         IN  IF ~before.ok THEN before
             ELSE LET r == RestoreEventFromJson(before.list, evtAry[n])
                  IN  [ok |-> r.ret, list |-> r.list]

\* VideoEventStackFilter::LoadFromJson: ok is FALSE for nullptr.
Filter_LoadFromJson(json) ==
    IF json.name # "EventStackFilter" THEN [ok |-> FALSE, list |-> <<>>]
    ELSE LET r == LoadEvents(json.events, Len(json.events))
         IN  IF r.ok THEN r ELSE [ok |-> FALSE, list |-> <<>>]

\* VideoEventStackFilter_Impl::Clone
Clone(L) == Filter_LoadFromJson(Filter_SaveAsJson(L))

(***************************************************************************)
(* Filtering. A frame is modelled by the sequence of the event filters     *)
(* that were run on it, each with the position it was run at.              *)
(***************************************************************************)
\* VideoEvent_Impl::FilterImage(vmat, pos), the blueprint taken as opaque.
VideoEvent_FilterImage(e, vmat, pos) == Append(vmat, <<e.m_id, pos>>)

RECURSIVE ApplyEvents(_, _, _)
ApplyEvents(effectiveEvents, outM, pos) ==
    IF effectiveEvents = <<>> THEN outM
    ELSE LET e == Head(effectiveEvents)
         IN  ApplyEvents(Tail(effectiveEvents),
                         VideoEvent_FilterImage(e, outM, pos - e.m_start), pos)

\* VideoEventStackFilter_Impl::FilterImage(vmat, pos)
FilterImage(L, vmat, pos) ==
    LET InRange(e) == IsInRange(e, pos)
        effectiveEvents == SelectSeq(L, InRange)
    IN  ApplyEvents(effectiveEvents, vmat, pos)

(***************************************************************************)
(* The state after construction: an empty stack, no call made yet.         *)
(***************************************************************************)
NoCall == [op |-> "none", pos |-> 0, ret |-> TRUE, out |-> <<>>]
Idle == [pc |-> "idle"]

\* An iterator of a std::list: at the element of identity id, at end(), or
\* not usable (k = "dangling": its element was erased; k = "uninit": never
\* assigned). id is a clip id for m_clips and the set of the two clip ids
\* for m_overlaps.
EndIter(none) == [k |-> "end", id |-> none]
AtIter(id) == [k |-> "at", id |-> id]
DanglingIter(id) == [k |-> "dangling", id |-> id]

\* The caller has no frame yet.
NoFrame == [has |-> FALSE, ts |-> 0]

\* VideoTrack::VideoTrack: m_readClipIter = m_clips.begin() of the empty
\* list; m_readOverlapIter is not assigned.
InitTrackWith(frameRate) ==
    /\ m_clips = <<>>
    /\ m_overlaps = <<>>
    /\ m_duration = 0
    /\ m_readClipIter = EndIter(0)
    /\ m_readOverlapIter = [k |-> "uninit", id |-> {}]
    /\ m_readFrames = 0
    /\ m_readForward = TRUE
    /\ m_frameRate = frameRate
    /\ thrown = 0
    /\ lastFrame = NoFrame

\* A path is a sequence of components; a component is a name and an
\* extension ("" for none). SysUtils::JoinPath, ExtractDirectoryPath and
\* ExtractFileBaseName on such paths; the empty path is the empty string.
Comp(n, x) == [n |-> n, x |-> x]
JoinPath(dir, comp) == Append(dir, comp)
ExtractDirectoryPath(path) == SubSeq(path, 1, Len(path) - 1)
ExtractFileBaseName(path) == path[Len(path)].n

\* JSON values of a content tree: null, an array, two objects.
JsonNull == "null"
JsonContents == {"null", "array", "object1", "object2"}
IsObject(j) == j \in {"object1", "object2"}

\* What there is at a path: nothing, a directory, or a file holding a
\* document. A document parses as JSON or not; one that parses has the key
\* mec_proj_version with a number (versioned) or is its content itself.
NoDoc == [parses |-> FALSE, versioned |-> FALSE, ver |-> 0, name |-> "",
          content |-> JsonNull]
NoEntry == [kind |-> "none", doc |-> NoDoc]
DirEntry == [kind |-> "dir", doc |-> NoDoc]
FileEntry(doc) == [kind |-> "file", doc |-> doc]
LegacyDoc(root) == [NoDoc EXCEPT !.parses = TRUE, !.content = root]
ProjDoc(ver, name, content) ==
    [parses |-> TRUE, versioned |-> TRUE, ver |-> ver, name |-> name,
     content |-> content]

\* The paths of the modelled file system.
ProjNames == {"a", "b"}
BaseDir == <<Comp("base", "")>>
ProjDirOf(name) == JoinPath(BaseDir, Comp(name, ""))
ProjFileOf(name) == JoinPath(ProjDirOf(name), Comp(name, "mep"))
LegacyFile == JoinPath(BaseDir, Comp("old", "json"))
LegacyArrayFile == JoinPath(BaseDir, Comp("list", "json"))
BadFile == JoinPath(BaseDir, Comp("bad", "mep"))
MissingFile == JoinPath(BaseDir, Comp("none", "mep"))
AllPaths ==
    {BaseDir, LegacyFile, LegacyArrayFile, BadFile, MissingFile}
        \cup {ProjDirOf(n) : n \in ProjNames}
        \cup {ProjFileOf(n) : n \in ProjNames}

\* The disk before the first call: the base directory, two files from
\* before the version tag, and a file that is not JSON.
InitFs ==
    [path \in AllPaths |->
        CASE path = BaseDir -> DirEntry
          [] path = LegacyFile -> FileEntry(LegacyDoc("object1"))
          [] path = LegacyArrayFile -> FileEntry(LegacyDoc("array"))
          [] path = BadFile -> FileEntry(NoDoc)
          [] OTHER -> NoEntry]

\* A Project after construction: not opened, every member empty.
InitProject ==
    /\ m_bOpened = FALSE
    /\ m_projName = ""
    /\ m_projDir = <<>>
    /\ m_projFilePath = <<>>
    /\ m_projVer = 0
    /\ m_jnProjContent = JsonNull
    /\ fs = InitFs

\* A decoder thread at its start: no frame held, nothing in the codec.
DecoderStart == [avfrmLoaded |-> FALSE, pending |-> 0, phase |-> "run"]

\* The player after OpenMedia of a source with the given streams, as
\* StartAllThreads finds it: empty queues; m_vidpktQMaxSize is 0 without a
\* video stream.
InitPlayerWith(video, audio) ==
    /\ streams = [video |-> video, audio |-> audio]
    /\ m_vidpktQ = 0
    /\ m_audpktQ = 0
    /\ m_vidfrmQ = 0
    /\ m_audfrmQ = 0
    /\ m_swrfrmQ = 0
    /\ qMaxSize = [vidpkt |-> IF video THEN VidPktQMaxSize ELSE 0,
                   audpkt |-> AudPktQMaxSize, vidfrm |-> VidFrmQMaxSize,
                   audfrm |-> AudFrmQMaxSize, swrfrm |-> SwrFrmQMaxSize]
    /\ pushMax = [audfrm |-> AudFrmQMaxSize, swrfrm |-> SwrFrmQMaxSize]
    /\ demux = [avpktLoaded |-> FALSE, stream |-> "none", m_demuxEof |-> FALSE]
    /\ viddec = DecoderStart
    /\ auddec = DecoderStart

\* A thread object that is not joinable, and a thread at its loop head.
NoThread == [proc |-> "none", pc |-> "done"]
ThreadOf(proc) == [proc |-> proc, pc |-> "head"]

\* No seek has been asked for yet.
NoSeek == [pos |-> -1, seekToI |-> FALSE, scrub |-> FALSE, target |-> -1,
           vidSeen |-> FALSE, vidFirst |-> -1, vidKept |-> FALSE, consumed |-> 0,
           paused |-> FALSE, pausePos |-> 0, waits |-> 0]

\* No public call is in progress.
NoApi == [op |-> "none", pos |-> -1, seekToI |-> FALSE, isPlaying |-> FALSE]

\* The player's control state after OpenMedia: the member initialisers,
\* lines 1829-1886.
InitCtl ==
    /\ m_avfmtCtx = TRUE
    /\ m_quitPlay = FALSE
    /\ m_isPlaying = FALSE
    /\ m_isAfterSeek = FALSE
    /\ m_isSeekToI = FALSE
    /\ m_seekToMts = 0
    /\ m_isSeeking = FALSE
    /\ m_asyncSeekPos = -1
    /\ m_isPlayingBeforeSeek = FALSE
    /\ m_errMessage = ""
    /\ m_demuxThread = NoThread
    /\ m_viddecThread = NoThread
    /\ m_auddecThread = NoThread
    /\ m_audswrThread = NoThread
    /\ m_renderThread = NoThread
    /\ api = NoApi
    /\ pts = [vid |-> 0, aud |-> 0, win |-> -1]
    /\ avfrm = [vid |-> 0, aud |-> 0]
    /\ now = 0
    /\ m_runStartTp = -1
    /\ m_pauseStartTp = -1
    /\ m_pausedDur = 0
    /\ m_posOffset = 0
    /\ m_playPos = 0
    /\ hist = NoSeek

\* The scrubbing render thread as it enters its procedure, lines 1323-1328:
\* an empty cache, the cursor at its end, no position seen yet. k: the
\* constants of the procedure. -1 stands for the end of the list, for
\* INT64_MIN and for "no frame published".
CacheStart(interval, maxSize, shrinkSize, spacing) ==
    [vidMatCache |-> <<>>, cacheIter |-> -1, prevSeekPos |-> -1,
     currSeekPos |-> -1, prevCachedTimestamp |-> 0, cacheUpdated |-> FALSE,
     m_vidMat |-> -1, pc |-> "head",
     k |-> [interval |-> interval, maxSize |-> maxSize, shrinkSize |-> shrinkSize],
     fed |-> 0, spacing |-> spacing]

MAX_CACHE_SIZE == 64
CACHE_SHRINK_SIZE == 48
\* MIN_CACHE_FRAME_INTERVAL = 0.5 s, in units of 100 ms
MIN_CACHE_FRAME_INTERVAL == 5

\* The audio path from the audio frame queue to the audio device, as
\* OpenMedia leaves it: empty queues, no frame held by the byte stream, no
\* thread, the device opened and not resumed. A frame is a number, 0 is
\* nullptr; freed: the frames released so far; made: the frames allocated
\* so far; fault: what went wrong with a frame, if anything did.
AudioStart(passThrough) ==
    [m_audfrmQ |-> <<>>, m_swrfrmQ |-> <<>>, m_unconsumedAudfrm |-> 0,
     m_swrPassThrough |-> passThrough, freed |-> {}, made |-> 0, fault |-> "",
     threads |-> FALSE, device |-> "paused", isPlaying |-> FALSE,
     read |-> [pc |-> "idle", audfrm |-> 0],
     ctl |-> [op |-> "none", pc |-> "none", isPlaying |-> FALSE]]

\* A MediaOverview_Impl after its construction, src/MediaOverview.cpp lines
\* 882-959: m_genSsEof (945) and m_ssCount (951) have no initializer, so
\* their values are whatever the build leaves there.
OverviewStart(genSsEof, ssCount) ==
    [m_opened |-> FALSE, hasVideo |-> FALSE, m_ssCount |-> ssCount,
     m_snapshots |-> <<>>, m_vidpktQ |-> <<>>, m_vidfrmQ |-> <<>>,
     codec |-> <<>>, flushed |-> FALSE, m_quitScan |-> FALSE,
     m_demuxEof |-> FALSE, m_viddecEof |-> FALSE, m_genSsEof |-> genSsEof,
     demux |-> "none",
     viddec |-> [pc |-> "none", avfrm |-> -1, inputEof |-> FALSE],
     genss |-> "none"]

InitAux ==
    /\ rc = CacheStart(MIN_CACHE_FRAME_INTERVAL, MAX_CACHE_SIZE, CACHE_SHRINK_SIZE, 0)
    /\ au = AudioStart(FALSE)
    /\ ovw = OverviewStart(FALSE, 0)

Init ==
    /\ m_eventList = <<>>
    /\ call = NoCall
    /\ mut = Idle
    /\ InitTrackWith([num |-> 1000, den |-> 1])
    /\ InitProject
    /\ InitPlayerWith(TRUE, TRUE)
    /\ InitCtl
    /\ InitAux

\* The process is alive: no call has crashed it.
Alive == call.op # "crash"

\* An event JSON without masks.
PlainEventJson(id, start, end, z) ==
    [has |-> {"id", "start", "end", "z", "bp", "kp"},
     id |-> id, start |-> start, end |-> end, z |-> z, bp |-> "valid",
     event_masks |-> <<>>, effect_mask_table |-> <<>>]

\* Event JSON that VideoEvent_Impl::LoadFromJson refuses.
BadEventJsons ==
    {[PlainEventJson(1, 0, 1, 0) EXCEPT !.has = @ \ {"z"}],
     [PlainEventJson(1, 0, 1, 0) EXCEPT !.bp = "invalid"],
     [PlainEventJson(1, 0, 1, 0) EXCEPT !.has = @ \ {"kp"}]}

\* The event JSON handed to RestoreEventFromJson: every id, z and range with
\* start < end, and for the last id a range with start = end and one with
\* end < start (two events of such ranges never count as overlapped).
EventJsons ==
    {j \in {PlainEventJson(id, s, e, z) :
                id \in Ids, s \in Times, e \in Times, z \in Zs} :
        \/ j.start < j.end
        \/ /\ \A id \in Ids : id <= j.id
           /\ <<j.start, j.end>> \in {<<1, 1>>, <<2, 0>>}}

(***************************************************************************)
(* The public calls on a stack, each one step.                             *)
(***************************************************************************)
DoAddNewEvent(id, start, end, z) ==
    /\ Alive /\ mut = Idle
    /\ \E r \in {AddNewEvent(m_eventList, id, start, end, z)} :
           /\ Len(r.list) <= MaxEvents
           /\ m_eventList' = r.list
           /\ call' = [op |-> "AddNewEvent", pos |-> 0, ret |-> r.ret, out |-> <<>>]
    /\ UNCHANGED mut
    /\ UNCHANGED notStackVars

DoRemoveEvent(id) ==
    /\ Alive /\ mut = Idle
    /\ \E r \in {RemoveEvent(m_eventList, id)} :
           /\ m_eventList' = r.list
           /\ call' = [op |-> "RemoveEvent", pos |-> 0, ret |-> r.ret, out |-> <<>>]
    /\ UNCHANGED mut
    /\ UNCHANGED notStackVars

DoChangeEventRange(id, start, end) ==
    /\ Alive /\ mut = Idle
    /\ \E r \in {ChangeEventRange(m_eventList, id, start, end)} :
           /\ m_eventList' = r.list
           /\ call' = [op |-> "ChangeEventRange", pos |-> 0, ret |-> r.ret, out |-> <<>>]
    /\ UNCHANGED mut
    /\ UNCHANGED notStackVars

\* The moved event's end stays in the modelled times.
DoMoveEvent(id, start, z) ==
    /\ Alive /\ mut = Idle
    /\ \A k \in 1..Len(m_eventList) :
          m_eventList[k].m_id = id =>
              m_eventList[k].m_end + (start - m_eventList[k].m_start) \in Times
    /\ \E r \in {MoveEvent(m_eventList, id, start, z)} :
           /\ m_eventList' = r.list
           /\ call' = [op |-> "MoveEvent", pos |-> 0, ret |-> r.ret, out |-> <<>>]
    /\ UNCHANGED mut
    /\ UNCHANGED notStackVars

\* All moved events stay in the modelled times.
DoMoveAllEvents(offset) ==
    /\ Alive /\ mut = Idle
    /\ m_eventList # <<>>
    /\ \A k \in 1..Len(m_eventList) :
          /\ m_eventList[k].m_start + offset \in Times
          /\ m_eventList[k].m_end + offset \in Times
    /\ \E r \in {MoveAllEvents(m_eventList, offset)} :
           /\ m_eventList' = r.list
           /\ call' = [op |-> "MoveAllEvents", pos |-> 0, ret |-> r.ret, out |-> <<>>]
    /\ UNCHANGED mut
    /\ UNCHANGED notStackVars

DoRestoreEventFromJson(json) ==
    /\ Alive /\ mut = Idle
    /\ \E r \in {RestoreEventFromJson(m_eventList, json)} :
           /\ Len(r.list) <= MaxEvents
           /\ m_eventList' = r.list
           /\ call' = [op |-> "RestoreEventFromJson", pos |-> 0, ret |-> r.ret, out |-> <<>>]
    /\ UNCHANGED mut
    /\ UNCHANGED notStackVars

\* Event::ChangeId on the event that the holder at index i of the list
\* refers to.
DoChangeId(i, id) ==
    /\ Alive /\ mut = Idle
    /\ i \in 1..Len(m_eventList)
    /\ \E r \in {ChangeId(m_eventList, i, id)} :
           /\ m_eventList' = r.list
           /\ call' = [op |-> "ChangeId", pos |-> 0, ret |-> r.ret, out |-> <<>>]
    /\ UNCHANGED mut
    /\ UNCHANGED notStackVars

\* FilterImage on the empty frame <<>>.
DoFilterImage(pos) ==
    /\ Alive /\ mut = Idle
    /\ call' = [op |-> "FilterImage", pos |-> pos, ret |-> TRUE,
                out |-> FilterImage(m_eventList, <<>>, pos)]
    /\ UNCHANGED <<m_eventList, mut>>
    /\ UNCHANGED notStackVars

\* Clone: the stack loaded from the JSON saved of this one (out), or
\* nullptr (ret FALSE).
DoClone ==
    /\ Alive /\ mut = Idle
    /\ \E r \in {Clone(m_eventList)} :
           call' = [op |-> "Clone", pos |-> 0, ret |-> r.ok, out |-> r.list]
    /\ UNCHANGED <<m_eventList, mut>>
    /\ UNCHANGED notStackVars

(***************************************************************************)
(* SpecStack: the stack under its own mutating calls and JSON enroll.      *)
(***************************************************************************)
NextStack ==
    \/ \E id \in Ids, start \in Times, end \in Times, z \in Zs :
          DoAddNewEvent(id, start, end, z)
    \/ \E id \in Ids : DoRemoveEvent(id)
    \/ \E id \in Ids, start \in Times, end \in Times :
          DoChangeEventRange(id, start, end)
    \/ \E id \in Ids, start \in Times, z \in Zs : DoMoveEvent(id, start, z)
    \/ \E offset \in {-1, 1} : DoMoveAllEvents(offset)
    \/ \E json \in EventJsons : DoRestoreEventFromJson(json)
    \/ \E json \in BadEventJsons : DoRestoreEventFromJson(json)
    \/ \E pos \in Times : DoFilterImage(pos)
    \/ DoClone

SpecStack == Init /\ [][NextStack]_vars

(***************************************************************************)
(* SpecStackId: SpecStack and Event::ChangeId.                             *)
(***************************************************************************)
NextStackId ==
    \/ NextStack
    \/ \E i \in 1..MaxEvents, id \in Ids : DoChangeId(i, id)

SpecStackId == Init /\ [][NextStackId]_vars

(***************************************************************************)
(* The mask calls on a video event, addressed by the index i of its holder *)
(* in the list. A call that crashes the process leaves call.op = "crash";  *)
(* no call follows it.                                                     *)
(***************************************************************************)
\* The event list with the event at index i replaced.
WithEvent(L, i, evt) == [L EXCEPT ![i] = evt]

\* What a mask call leaves in call.
MaskCall(name, index, r, args) ==
    [op |-> IF r.exc = "crash" THEN "crash" ELSE name, pos |-> index,
     ret |-> r.ret, out |-> args]

DoSaveMask(i, j, hasMat, index) ==
    /\ Alive /\ mut = Idle
    /\ i \in 1..Len(m_eventList)
    /\ \E r \in {SaveMask(m_eventList[i], j, hasMat, index)} :
          /\ Len(r.evt.m_ajnEventMasks) <= MaxMasks
          /\ m_eventList' = WithEvent(m_eventList, i, r.evt)
          /\ call' = MaskCall("SaveMask", index, r,
                              [i |-> i, j |-> j, hasMat |-> hasMat, exc |-> r.exc])
    /\ UNCHANGED mut
    /\ UNCHANGED notStackVars

DoRemoveMask(i, index) ==
    /\ Alive /\ mut = Idle
    /\ i \in 1..Len(m_eventList)
    /\ \E r \in {RemoveMask(m_eventList[i], index)} :
          /\ m_eventList' = WithEvent(m_eventList, i, r.evt)
          /\ call' = MaskCall("RemoveMask", index, r, [i |-> i, exc |-> r.exc])
    /\ UNCHANGED mut
    /\ UNCHANGED notStackVars

DoSaveMaskOfNode(i, nodeId, j, index) ==
    /\ Alive /\ mut = Idle
    /\ i \in 1..Len(m_eventList)
    /\ \E r \in {SaveMaskOfNode(m_eventList[i], nodeId, j, index)} :
          /\ GetMaskCountOfNode(r.evt, nodeId) <= MaxMasks
          /\ m_eventList' = WithEvent(m_eventList, i, r.evt)
          /\ call' = MaskCall("SaveMaskOfNode", index, r,
                              [i |-> i, j |-> j, nodeId |-> nodeId, exc |-> r.exc])
    /\ UNCHANGED mut
    /\ UNCHANGED notStackVars

DoRemoveMaskOfNode(i, nodeId, index) ==
    /\ Alive /\ mut = Idle
    /\ i \in 1..Len(m_eventList)
    /\ \E r \in {RemoveMaskOfNode(m_eventList[i], nodeId, index)} :
          /\ m_eventList' = WithEvent(m_eventList, i, r.evt)
          /\ call' = MaskCall("RemoveMaskOfNode", index, r,
                              [i |-> i, nodeId |-> nodeId, exc |-> r.exc])
    /\ UNCHANGED mut
    /\ UNCHANGED notStackVars

\* The mask indexes handed to the mask calls.
MaskIndexes == (-1)..(MaxMasks + 1)

\* Event JSON with masks: event_masks of up to two descriptors, and an
\* effect_mask_table, one of them naming a node twice.
MaskedEventJsons ==
    {[PlainEventJson(1, 0, 1, 0) EXCEPT
         !.has = @ \cup keys, !.event_masks = em, !.effect_mask_table = tb] :
        keys \in {{"event_masks", "effect_mask_table"}},
        em \in {<<>>, <<"rect">>, <<"bad">>, <<"bad", "rect">>, <<"rect", "oval">>},
        tb \in {<<>>,
                <<[node_id |-> 1, masks |-> <<"rect">>]>>,
                <<[node_id |-> 2, masks |-> <<>>],
                  [node_id |-> 2, masks |-> <<"rect">>]>>}}

(***************************************************************************)
(* SpecMask: one video event and its masks.                                *)
(***************************************************************************)
NextMask ==
    \/ DoAddNewEvent(1, 0, 1, 0)
    \/ DoRemoveEvent(1)
    \/ \E json \in MaskedEventJsons : DoRestoreEventFromJson(json)
    \/ \E j \in Descs, hasMat \in BOOLEAN, index \in MaskIndexes :
          DoSaveMask(1, j, hasMat, index)
    \/ \E index \in MaskIndexes : DoRemoveMask(1, index)
    \/ \E nodeId \in NodeIds, index \in MaskIndexes :
          DoSaveMaskOfNode(1, nodeId, "rect", index)
    \/ \E nodeId \in NodeIds, index \in MaskIndexes :
          DoRemoveMaskOfNode(1, nodeId, index)
    \/ DoClone

SpecMask == Init /\ [][NextMask]_vars

(***************************************************************************)
(* SpecConc: a mutation runs on one thread, step by step, while another    *)
(* thread calls FilterImage. EventStack_Base and the filters take no lock: *)
(* the reader sees the event list between the mutation's writes. mut holds *)
(* the mutation in progress: its next step, the index i of the event it    *)
(* writes, the values to write, the list it started from (pre) and the     *)
(* list it is to end with (post).                                          *)
(***************************************************************************)
\* ChangeEventRange up to its first write: the checks, on the list as read.
BeginChangeEventRange(id, start, end) ==
    /\ mut = Idle
    /\ \E r \in {ChangeEventRange(m_eventList, id, start, end)} :
          IF r.ret
          THEN /\ mut' = [pc |-> "SetStart", op |-> "ChangeEventRange",
                          i |-> GetEvent(m_eventList, id),
                          start |-> Min(start, end), end |-> Max(start, end),
                          z |-> 0, pre |-> m_eventList, post |-> r.list]
               /\ UNCHANGED <<m_eventList, call>>
          ELSE /\ call' = [op |-> "ChangeEventRange", pos |-> 0,
                           ret |-> FALSE, out |-> <<>>]
               /\ UNCHANGED <<m_eventList, mut>>
    /\ UNCHANGED notStackVars

\* MoveEvent up to its first write.
BeginMoveEvent(id, start, z) ==
    /\ mut = Idle
    /\ \A k \in 1..Len(m_eventList) :
          m_eventList[k].m_id = id =>
              m_eventList[k].m_end + (start - m_eventList[k].m_start) \in Times
    /\ \E r \in {MoveEvent(m_eventList, id, start, z)} :
          IF r.ret
          THEN /\ \E i \in {GetEvent(m_eventList, id)} :
                    mut' = [pc |-> "SetStart", op |-> "MoveEvent", i |-> i,
                            start |-> start,
                            end |-> m_eventList[i].m_end
                                    + (start - m_eventList[i].m_start),
                            z |-> z, pre |-> m_eventList, post |-> r.list]
               /\ UNCHANGED <<m_eventList, call>>
          ELSE /\ call' = [op |-> "MoveEvent", pos |-> 0,
                           ret |-> FALSE, out |-> <<>>]
               /\ UNCHANGED <<m_eventList, mut>>
    /\ UNCHANGED notStackVars

\* AddNewEvent up to and with its push_back.
BeginAddNewEvent(id, start, end, z) ==
    /\ mut = Idle
    /\ \E r \in {AddNewEvent(m_eventList, id, start, end, z)} :
          /\ Len(r.list) <= MaxEvents
          /\ IF r.ret
             THEN /\ m_eventList' =
                        Append(m_eventList,
                               CreateNewEvent(id, Min(start, end),
                                              Max(start, end), z))
                  /\ mut' = [pc |-> "sort", op |-> "AddNewEvent",
                             i |-> Len(m_eventList) + 1,
                             start |-> Min(start, end), end |-> Max(start, end),
                             z |-> z, pre |-> m_eventList, post |-> r.list]
                  /\ UNCHANGED call
             ELSE /\ call' = [op |-> "AddNewEvent", pos |-> 0,
                              ret |-> FALSE, out |-> <<>>]
                  /\ UNCHANGED <<m_eventList, mut>>
    /\ UNCHANGED notStackVars

\* pEvtBase->SetStart(start)
StepSetStart ==
    /\ mut.pc = "SetStart"
    /\ m_eventList' = [m_eventList EXCEPT ![mut.i].m_start = mut.start]
    /\ mut' = [mut EXCEPT !.pc = "SetEnd"]
    /\ UNCHANGED call
    /\ UNCHANGED notStackVars

\* pEvtBase->SetEnd(end)
StepSetEnd ==
    /\ mut.pc = "SetEnd"
    /\ m_eventList' = [m_eventList EXCEPT ![mut.i].m_end = mut.end]
    /\ mut' = [mut EXCEPT !.pc = IF mut.op = "MoveEvent" THEN "SetZ" ELSE "sort"]
    /\ UNCHANGED call
    /\ UNCHANGED notStackVars

\* pEvtBase->SetZ(z)
StepSetZ ==
    /\ mut.pc = "SetZ"
    /\ m_eventList' = [m_eventList EXCEPT ![mut.i].m_z = mut.z]
    /\ mut' = [mut EXCEPT !.pc = "sort"]
    /\ UNCHANGED call
    /\ UNCHANGED notStackVars

\* m_eventList.sort(EVENTLIST_COMPARATOR) and the return
StepSort ==
    /\ mut.pc = "sort"
    /\ m_eventList' = SortEventList(m_eventList)
    /\ mut' = Idle
    /\ call' = [op |-> mut.op, pos |-> 0, ret |-> TRUE, out |-> <<>>]
    /\ UNCHANGED notStackVars

\* FilterImage on the reader's thread, on the list as it is now.
ConcFilterImage(pos) ==
    /\ call' = [op |-> "FilterImage", pos |-> pos, ret |-> TRUE,
                out |-> FilterImage(m_eventList, <<>>, pos)]
    /\ UNCHANGED <<m_eventList, mut>>
    /\ UNCHANGED notStackVars

NextConc ==
    \/ \E id \in Ids, start \in Times, end \in Times, z \in Zs :
          BeginAddNewEvent(id, start, end, z)
    \/ \E id \in Ids, start \in Times, end \in Times :
          BeginChangeEventRange(id, start, end)
    \/ \E id \in Ids, start \in Times, z \in Zs : BeginMoveEvent(id, start, z)
    \/ StepSetStart
    \/ StepSetEnd
    \/ StepSetZ
    \/ StepSort
    \/ \E id \in Ids : DoRemoveEvent(id)
    \/ \E pos \in Times : ConcFilterImage(pos)

SpecConc == Init /\ [][NextConc]_vars

(***************************************************************************)
(* Part 2: the video track. VideoClip and VideoOverlap are not part of     *)
(* the modelled sources; their accessors follow the data model: a clip is  *)
(* (id, start, startOffset, endOffset, trackId) with duration =            *)
(* sourceDuration - startOffset - endOffset and end = start + duration; an *)
(* overlap of two clips is (start = max of the starts, end = min of the    *)
(* ends, frontClip = the one with the smaller start, ties by id). A clip   *)
(* is identified by its id, as the overlaps refer to their clips by id.    *)
(***************************************************************************)
\* The duration of every source.
SrcDuration == 4
\* VideoTrack::m_id
TrackId == 1
ClipIds == {1, 2, 3}
ClipStarts == 0..MaxClipStart
\* The <<startOffset, endOffset>> of the modelled clips: durations 4 and 2.
OffsetPairs == {<<0, 0>>, <<1, 1>>}
FrameRates == {[num |-> 1000, den |-> 1], [num |-> 500, den |-> 1]}

\* new VideoClip(...): not yet on a track.
NewClip(id, start, startOffset, endOffset) ==
    [id |-> id, start |-> start, startOffset |-> startOffset,
     endOffset |-> endOffset, trackId |-> -1, forward |-> TRUE]

ClipDuration(c) == SrcDuration - c.startOffset - c.endOffset
ClipEnd(c) == c.start + ClipDuration(c)

\* VideoOverlap::HasOverlap: the two clips have a non-empty time intersection.
HasOverlap(a, b) == Max(a.start, b.start) < Min(ClipEnd(a), ClipEnd(b))

\* new VideoOverlap(0, a, b) and VideoOverlap::Update.
VideoOverlap(a, b) ==
    LET aFront == a.start < b.start \/ (a.start = b.start /\ a.id <= b.id)
    IN  [front |-> IF aFront THEN a.id ELSE b.id,
         rear |-> IF aFront THEN b.id ELSE a.id,
         start |-> Max(a.start, b.start),
         end |-> Min(ClipEnd(a), ClipEnd(b))]

OverlapDuration(ov) == ov.end - ov.start
OverlapKey(ov) == {ov.front, ov.rear}

\* CLIP_SORT_CMP and OVERLAP_SORT_CMP
CLIP_SORT_CMP(a, b) == a.start < b.start
OVERLAP_SORT_CMP(a, b) == a.start < b.start

\* std::list::sort by start (stable): the place of s[i] in the sorted list.
StartRank(s, i) ==
    Cardinality({j \in 1..Len(s) : CLIP_SORT_CMP(s[j], s[i])})
    + Cardinality({j \in 1..(i - 1) : ~CLIP_SORT_CMP(s[i], s[j])
                                     /\ ~CLIP_SORT_CMP(s[j], s[i])}) + 1

SortByStart(s) ==
    [p \in 1..Len(s) |-> s[CHOOSE i \in 1..Len(s) : StartRank(s, i) = p]]

\* The track's variables as one record, and the step that assigns them.
Track ==
    [m_clips |-> m_clips, m_overlaps |-> m_overlaps, m_duration |-> m_duration,
     m_readClipIter |-> m_readClipIter, m_readOverlapIter |-> m_readOverlapIter,
     m_readFrames |-> m_readFrames, m_readForward |-> m_readForward,
     m_frameRate |-> m_frameRate]

SetTrack(t) ==
    /\ m_clips' = t.m_clips
    /\ m_overlaps' = t.m_overlaps
    /\ m_duration' = t.m_duration
    /\ m_readClipIter' = t.m_readClipIter
    /\ m_readOverlapIter' = t.m_readOverlapIter
    /\ m_readFrames' = t.m_readFrames
    /\ m_readForward' = t.m_readForward
    /\ m_frameRate' = t.m_frameRate

ClipIdsOf(clips) == {clips[k].id : k \in 1..Len(clips)}

\* VideoTrack::GetClipById: the index of the first clip with that id, 0 for
\* nullptr.
GetClipById(clips, id) ==
    IF \E k \in 1..Len(clips) : clips[k].id = id
    THEN CHOOSE k \in 1..Len(clips) :
            clips[k].id = id /\ \A j \in 1..(k - 1) : clips[j].id # id
    ELSE 0

\* CheckClipRangeValid that looks at the start of the range only.
CheckClipRangeValid_StartOnly(overlaps, clipId, start, end) ==
    \A k \in 1..Len(overlaps) :
        \/ clipId = overlaps[k].front \/ clipId = overlaps[k].rear
        \/ ~(start > overlaps[k].start /\ start < overlaps[k].end)

\* VideoTrack::CheckClipRangeValid
CheckClipRangeValid(overlaps, clipId, start, end) ==
    \A k \in 1..Len(overlaps) :
        \/ clipId = overlaps[k].front \/ clipId = overlaps[k].rear
        \/ ~(\/ start > overlaps[k].start /\ start < overlaps[k].end
             \/ end > overlaps[k].start /\ end < overlaps[k].end)

\* VideoTrack::UpdateClipOverlap(hUpdateClip, remove) on a track t whose
\* m_clips is already changed. An overlap whose member has left the track
\* is erased; an overlap of the updated clip is updated and erased when its
\* duration is not positive; an overlap is added for every other clip that
\* overlaps the updated one and has no overlap record with it; the list is
\* sorted. An iterator at an erased overlap dangles.
UpdateClipOverlap(t, hUpdateClip, remove) ==
    LET clips == t.m_clips
        id1 == hUpdateClip.id
        ClipOf(id) == clips[GetClipById(clips, id)]
        OnTrack(ov) == ov.front \in ClipIdsOf(clips) /\ ov.rear \in ClipIdsOf(clips)
        Involves(ov) == ov.front = id1 \/ ov.rear = id1
        Updated(ov) == IF OnTrack(ov) /\ Involves(ov)
                       THEN VideoOverlap(ClipOf(ov.front), ClipOf(ov.rear))
                       ELSE ov
        updated == [k \in 1..Len(t.m_overlaps) |-> Updated(t.m_overlaps[k])]
        Stays(ov) == OnTrack(ov) /\ (Involves(ov) => OverlapDuration(ov) > 0)
        kept == SelectSeq(updated, Stays)
        keptKeys == {OverlapKey(kept[k]) : k \in 1..Len(kept)}
        IsNew(clip) == /\ clip.id # id1
                       /\ HasOverlap(hUpdateClip, clip)
                       /\ {id1, clip.id} \notin keptKeys
        newFor == SelectSeq(clips, IsNew)
        added == [k \in 1..Len(newFor) |-> VideoOverlap(hUpdateClip, newFor[k])]
        it == t.m_readOverlapIter
    IN  [t EXCEPT
            !.m_overlaps = SortByStart(kept \o (IF remove THEN <<>> ELSE added)),
            !.m_readOverlapIter =
                IF it.k = "at" /\ it.id \notin keptKeys
                THEN DanglingIter(it.id) ELSE it]

\* The track duration as the code sets it: from the last clip of the list.
LastClipEnd(clips) == clips[Len(clips)].start + ClipDuration(clips[Len(clips)])

\* VideoTrack::InsertClip. exc: "invalid_argument" for the throw. clip is
\* the clip handed in, as the call leaves it.
InsertClip(t, hClip) ==
    IF ~CheckClipRangeValid(t.m_overlaps, hClip.id, hClip.start, ClipEnd(hClip))
    THEN [exc |-> "invalid_argument", trk |-> t, clip |-> hClip]
    ELSE LET clip == [hClip EXCEPT !.forward = t.m_readForward,
                                   !.trackId = TrackId]
             clips == SortByStart(Append(t.m_clips, clip))
             t1 == [t EXCEPT !.m_clips = clips,
                             !.m_duration = LastClipEnd(clips)]
         IN  [exc |-> "none", trk |-> UpdateClipOverlap(t1, clip, FALSE),
              clip |-> clip]

\* VideoTrack::MoveClip. The clip's start is set before the range is
\* checked.
MoveClip(t, id, start) ==
    LET i == GetClipById(t.m_clips, id)
    IN  IF i = 0 THEN [exc |-> "invalid_argument", trk |-> t]
        ELSE IF t.m_clips[i].start = start THEN [exc |-> "none", trk |-> t]
        ELSE LET moved == [t.m_clips EXCEPT ![i].start = start]
                 hClip == moved[i]
             IN  IF ~CheckClipRangeValid(t.m_overlaps, id, hClip.start,
                                         ClipEnd(hClip))
                 THEN [exc |-> "invalid_argument",
                       trk |-> [t EXCEPT !.m_clips = moved]]
                 ELSE LET clips == SortByStart(moved)
                          t1 == [t EXCEPT !.m_clips = clips,
                                          !.m_duration = LastClipEnd(clips)]
                      IN  [exc |-> "none",
                           trk |-> UpdateClipOverlap(t1, hClip, FALSE)]

\* VideoTrack::ChangeClipRange. The offsets are set before the range is
\* checked.
ChangeClipRange(t, id, startOffset, endOffset) ==
    LET i == GetClipById(t.m_clips, id)
    IN  IF i = 0 THEN [exc |-> "invalid_argument", trk |-> t]
        ELSE IF /\ startOffset = t.m_clips[i].startOffset
                /\ endOffset = t.m_clips[i].endOffset
             THEN [exc |-> "none", trk |-> t]
        ELSE LET changed == [t.m_clips EXCEPT ![i].startOffset = startOffset,
                                              ![i].endOffset = endOffset]
                 hClip == changed[i]
             IN  IF ~CheckClipRangeValid(t.m_overlaps, id, hClip.start,
                                         ClipEnd(hClip))
                 THEN [exc |-> "invalid_argument",
                       trk |-> [t EXCEPT !.m_clips = changed]]
                 ELSE LET clips == SortByStart(changed)
                          t1 == [t EXCEPT !.m_clips = clips,
                                          !.m_duration = LastClipEnd(clips)]
                      IN  [exc |-> "none",
                           trk |-> UpdateClipOverlap(t1, hClip, FALSE)]

\* VideoTrack::RemoveClipById. found: a clip is returned (not nullptr). An
\* iterator at the erased clip dangles.
RemoveClipById(t, clipId) ==
    LET i == GetClipById(t.m_clips, clipId)
    IN  IF i = 0 THEN [exc |-> "none", found |-> FALSE, trk |-> t]
        ELSE LET hClip == [t.m_clips[i] EXCEPT !.trackId = -1]
                 clips == EraseAt(t.m_clips, i)
                 it == t.m_readClipIter
                 t1 == [t EXCEPT !.m_clips = clips,
                                 !.m_readClipIter =
                                     IF it.k = "at" /\ it.id = clipId
                                     THEN DanglingIter(clipId) ELSE it]
                 t2 == UpdateClipOverlap(t1, hClip, TRUE)
             IN  [exc |-> "none", found |-> TRUE,
                  trk |-> [t2 EXCEPT !.m_duration =
                              IF clips = <<>> THEN 0 ELSE LastClipEnd(clips)]]

\* The iterator of the clip at index i of clips, end() past the last one,
\* and the index an iterator stands at.
ClipIterAt(clips, i) ==
    IF i \in 1..Len(clips) THEN AtIter(clips[i].id) ELSE EndIter(0)

ClipIterIndex(clips, it) ==
    IF it.k = "at" THEN GetClipById(clips, it.id) ELSE Len(clips) + 1

OverlapIterAt(overlaps, i) ==
    IF i \in 1..Len(overlaps) THEN AtIter(OverlapKey(overlaps[i])) ELSE EndIter({})

OverlapIterIndex(overlaps, it) ==
    IF it.k = "at"
    THEN CHOOSE k \in 1..Len(overlaps) : OverlapKey(overlaps[k]) = it.id
    ELSE Len(overlaps) + 1

\* The time ranges of a list of clips and of a list of overlaps.
ClipRanges(clips) ==
    [k \in 1..Len(clips) |-> [start |-> clips[k].start, end |-> ClipEnd(clips[k])]]

OverlapRanges(overlaps) ==
    [k \in 1..Len(overlaps) |-> [start |-> overlaps[k].start, end |-> overlaps[k].end]]

\* Integer division that truncates toward zero, as the cast of a double to
\* int64_t does.
TruncDiv(a, b) == IF a >= 0 THEN a \div b ELSE -((-a) \div b)

\* A read position that wraps around with the frame index.
ReadPosOf_Wrap(frames, frameRate) ==
    TruncDiv((frames % 4) * 1000 * frameRate.den, frameRate.num)

\* m_readFrames of a position, and the read position of m_readFrames.
FramesOfPos(pos, frameRate) == (pos * frameRate.num) \div (frameRate.den * 1000)
ReadPosOf(frames, frameRate) == TruncDiv(frames * 1000 * frameRate.den, frameRate.num)

\* VideoTrack::SeekTo, lines 168-228: the read cursors for position pos.
SeekCursors(t, pos) ==
    LET clips == t.m_clips
        ovs == t.m_overlaps
        fwdClips == {k \in 1..Len(clips) : pos - clips[k].start < ClipDuration(clips[k])}
        fwdOvs == {k \in 1..Len(ovs) : pos - ovs[k].start < OverlapDuration(ovs[k])}
        revClips == {k \in 1..Len(clips) : pos - clips[k].start >= 0}
        revOvs == {k \in 1..Len(ovs) : pos - ovs[k].start >= 0}
        First(S, n) == IF S = {} THEN n + 1 ELSE CHOOSE k \in S : \A j \in S : k <= j
        \* riter.base() is the iterator after the element riter refers to
        BaseOfLast(S, n) ==
            IF S = {} THEN n + 1 ELSE (CHOOSE k \in S : \A j \in S : k >= j) + 1
    IN  [t EXCEPT
            !.m_readClipIter =
                IF t.m_readForward
                THEN ClipIterAt(clips, First(fwdClips, Len(clips)))
                ELSE ClipIterAt(clips, BaseOfLast(revClips, Len(clips))),
            !.m_readOverlapIter =
                IF t.m_readForward
                THEN OverlapIterAt(ovs, First(fwdOvs, Len(ovs)))
                ELSE OverlapIterAt(ovs, BaseOfLast(revOvs, Len(ovs)))]

\* The position each clip's own cursor is set to by hClip->SeekTo(clipPos),
\* by clip id; the track does not read it back.
ClipPosOf(clips, pos) ==
    [id \in ClipIdsOf(clips) |-> pos - clips[GetClipById(clips, id)].start]

\* A seek that adds to the frame index.
SeekTo_Accumulate(t, pos) ==
    IF pos < 0 THEN [exc |-> "invalid_argument", trk |-> t, clipPos |-> <<>>]
    ELSE [exc |-> "none",
          clipPos |-> ClipPosOf(t.m_clips, pos),
          trk |-> [SeekCursors(t, pos) EXCEPT
                      !.m_readFrames = @ + FramesOfPos(pos, t.m_frameRate)]]

\* VideoTrack::SeekTo
SeekTo(t, pos) ==
    IF pos < 0 THEN [exc |-> "invalid_argument", trk |-> t, clipPos |-> <<>>]
    ELSE [exc |-> "none",
          clipPos |-> ClipPosOf(t.m_clips, pos),
          trk |-> [SeekCursors(t, pos) EXCEPT
                      !.m_readFrames = FramesOfPos(pos, t.m_frameRate)]]

\* The forward loop `while (it != end && readPos >= it->Start())
\* { if (readPos < it->End()) { read; break; } else it++; }`: where it stops.
FwdStop(r, i, readPos) ==
    CHOOSE j \in i..(Len(r) + 1) :
        /\ j = Len(r) + 1 \/ readPos < r[j].start \/ readPos < r[j].end
        /\ \A h \in i..(j - 1) : readPos >= r[h].start /\ readPos >= r[h].end

\* The reverse loop `while (it != begin && (it == end || readPos <
\* it->Start())) it--;`: where it stops.
RevStop(r, i, readPos) ==
    CHOOSE j \in 1..i :
        /\ j = 1 \/ (j <= Len(r) /\ readPos >= r[j].start)
        /\ \A h \in (j + 1)..i : h > Len(r) \/ readPos < r[h].start

\* A frame: its time stamp (in milliseconds), who was asked for the image
\* (an overlap, a clip, or nobody: the frame is empty), the ids of the
\* clips of who was asked, and the local position asked for.
EmptyFrame(readPos) == [ts |-> readPos, src |-> "none", ids |-> {}, pos |-> 0]

\* VideoTrack::ReadVideoFrame. An overlap or clip that is asked gives an
\* image. exc: "crash" for the use of an iterator that is not usable.
ReadVideoFrame(t) ==
    LET readPos == ReadPosOf(t.m_readFrames, t.m_frameRate)
        ovs == t.m_overlaps
        clips == t.m_clips
        ovR == OverlapRanges(ovs)
        clR == ClipRanges(clips)
        usableOv == t.m_readOverlapIter.k \in {"at", "end"}
        usableCl == t.m_readClipIter.k \in {"at", "end"}
        oi == OverlapIterIndex(ovs, t.m_readOverlapIter)
        oj == IF t.m_readForward THEN FwdStop(ovR, oi, readPos)
              ELSE RevStop(ovR, oi, readPos)
        ovHit == oj <= Len(ovs) /\ readPos >= ovR[oj].start /\ readPos < ovR[oj].end
        ci == ClipIterIndex(clips, t.m_readClipIter)
        cj == IF t.m_readForward THEN FwdStop(clR, ci, readPos)
              ELSE RevStop(clR, ci, readPos)
        clHit == /\ cj <= Len(clips)
                 /\ readPos < clR[cj].end
                 /\ (t.m_readForward => readPos >= clR[cj].start)
        next == IF t.m_readForward THEN t.m_readFrames + 1 ELSE t.m_readFrames - 1
    IN  IF ~usableOv THEN [exc |-> "crash", trk |-> t, frame |-> EmptyFrame(readPos)]
        ELSE IF ovHit
        THEN [exc |-> "none",
              trk |-> [t EXCEPT !.m_readOverlapIter = OverlapIterAt(ovs, oj),
                                !.m_readFrames = next],
              frame |-> [ts |-> readPos, src |-> "overlap",
                         ids |-> OverlapKey(ovs[oj]),
                         pos |-> readPos - ovR[oj].start]]
        ELSE IF ~usableCl THEN [exc |-> "crash", trk |-> t, frame |-> EmptyFrame(readPos)]
        ELSE [exc |-> "none",
              trk |-> [t EXCEPT !.m_readOverlapIter = OverlapIterAt(ovs, oj),
                                !.m_readClipIter = ClipIterAt(clips, cj),
                                !.m_readFrames = next],
              frame |-> IF clHit
                        THEN [ts |-> readPos, src |-> "clip",
                              ids |-> {clips[cj].id},
                              pos |-> readPos - clR[cj].start]
                        ELSE EmptyFrame(readPos)]

\* VideoTrack::SetDirection
SetDirection(t, forward) ==
    IF t.m_readForward = forward THEN t
    ELSE [t EXCEPT !.m_readForward = forward,
                   !.m_clips = [k \in 1..Len(t.m_clips) |->
                                   [t.m_clips[k] EXCEPT !.forward = forward]]]

(***************************************************************************)
(* The public calls on a track, each one step (each takes m_apiLock). call *)
(* records the call: ret is FALSE when it threw, out is what it gave.      *)
(***************************************************************************)
InitTrack ==
    /\ m_eventList = <<>>
    /\ call = NoCall
    /\ mut = Idle
    /\ \E frameRate \in FrameRates : InitTrackWith(frameRate)
    /\ InitProject
    /\ InitPlayerWith(TRUE, TRUE)
    /\ InitCtl
    /\ InitAux

\* The last position of the modelled timeline.
MaxPos == MaxClipStart + SrcDuration

\* InsertClip of a new clip: its id is not on the track.
DoInsertClip(id, start, startOffset, endOffset) ==
    /\ Alive
    /\ id \notin ClipIdsOf(m_clips)
    /\ \E r \in {InsertClip(Track, NewClip(id, start, startOffset, endOffset))} :
          /\ SetTrack(r.trk)
          /\ call' = [op |-> "InsertClip", pos |-> 0, ret |-> r.exc = "none",
                      out |-> <<>>]
    /\ UNCHANGED <<thrown, lastFrame, notTrackVars>>

DoMoveClip(id, start) ==
    /\ Alive
    /\ \E r \in {MoveClip(Track, id, start)} :
          /\ r.exc = "none" \/ thrown < MaxThrown
          /\ thrown' = IF r.exc = "none" THEN thrown ELSE thrown + 1
          /\ SetTrack(r.trk)
          /\ call' = [op |-> "MoveClip", pos |-> 0, ret |-> r.exc = "none",
                      out |-> <<>>]
    /\ UNCHANGED <<lastFrame, notTrackVars>>

DoChangeClipRange(id, startOffset, endOffset) ==
    /\ Alive
    /\ \E r \in {ChangeClipRange(Track, id, startOffset, endOffset)} :
          /\ r.exc = "none" \/ thrown < MaxThrown
          /\ thrown' = IF r.exc = "none" THEN thrown ELSE thrown + 1
          /\ SetTrack(r.trk)
          /\ call' = [op |-> "ChangeClipRange", pos |-> 0, ret |-> r.exc = "none",
                      out |-> <<>>]
    /\ UNCHANGED <<lastFrame, notTrackVars>>

DoRemoveClipById(clipId) ==
    /\ Alive
    /\ \E r \in {RemoveClipById(Track, clipId)} :
          /\ SetTrack(r.trk)
          /\ call' = [op |-> "RemoveClipById", pos |-> 0, ret |-> r.found,
                      out |-> <<>>]
    /\ UNCHANGED <<thrown, lastFrame, notTrackVars>>

DoSeekTo(pos) ==
    /\ Alive
    /\ \E r \in {SeekTo(Track, pos)} :
          /\ SetTrack(r.trk)
          /\ call' = [op |-> "SeekTo", pos |-> pos, ret |-> r.exc = "none",
                      out |-> <<>>]
          /\ lastFrame' = IF r.exc = "none" THEN NoFrame ELSE lastFrame
    /\ UNCHANGED <<thrown, notTrackVars>>

\* ReadVideoFrame, once the track has been sought and while the read
\* position is on the modelled timeline. The use of an iterator that is
\* not usable is undefined: the call crashes, or it reads the freed
\* element and returns a frame of unknown content ("garbage") with the
\* time stamp and the frame index set as lines 275-276 / 303-304 do.
DoReadVideoFrame ==
    /\ Alive
    /\ m_readOverlapIter.k # "uninit"
    /\ ReadPosOf(m_readFrames, m_frameRate) \in (-2)..(MaxPos + 1)
    /\ \E r \in {ReadVideoFrame(Track)} :
          \/ /\ r.exc = "none"
             /\ SetTrack(r.trk)
             /\ call' = [op |-> "ReadVideoFrame", pos |-> r.frame.ts,
                         ret |-> TRUE, out |-> r.frame]
             /\ lastFrame' = [has |-> TRUE, ts |-> r.frame.ts]
          \/ /\ r.exc = "crash"
             /\ SetTrack(r.trk)
             /\ call' = [op |-> "crash", pos |-> r.frame.ts, ret |-> FALSE,
                         out |-> r.frame]
             /\ UNCHANGED lastFrame
          \/ /\ r.exc = "crash"
             /\ SetTrack([r.trk EXCEPT !.m_readFrames =
                             IF m_readForward THEN @ + 1 ELSE @ - 1])
             /\ call' = [op |-> "ReadVideoFrame", pos |-> r.frame.ts,
                         ret |-> TRUE,
                         out |-> [r.frame EXCEPT !.src = "garbage"]]
             /\ lastFrame' = [has |-> TRUE, ts |-> r.frame.ts]
    /\ UNCHANGED <<thrown, notTrackVars>>

DoSetDirection(forward) ==
    /\ Alive
    /\ SetTrack(SetDirection(Track, forward))
    /\ call' = [op |-> "SetDirection", pos |-> 0, ret |-> TRUE, out |-> <<>>]
    /\ lastFrame' = IF forward = m_readForward THEN lastFrame ELSE NoFrame
    /\ UNCHANGED <<thrown, notTrackVars>>

(***************************************************************************)
(* SpecTrack: the track under its editing calls.                           *)
(***************************************************************************)
NextTrack ==
    \/ \E id \in ClipIds, start \in ClipStarts, o \in OffsetPairs :
          DoInsertClip(id, start, o[1], o[2])
    \/ \E id \in ClipIds, start \in ClipStarts : DoMoveClip(id, start)
    \/ \E id \in ClipIds, o \in OffsetPairs : DoChangeClipRange(id, o[1], o[2])
    \/ \E id \in ClipIds : DoRemoveClipById(id)

SpecTrack == Init /\ [][NextTrack]_vars

(***************************************************************************)
(* SpecInsert: the track under InsertClip and RemoveClipById, the calls    *)
(* that leave the track as it was when they fail.                          *)
(***************************************************************************)
NextInsert ==
    \/ \E id \in ClipIds, start \in ClipStarts, o \in OffsetPairs :
          DoInsertClip(id, start, o[1], o[2])
    \/ \E id \in ClipIds : DoRemoveClipById(id)

SpecInsert == Init /\ [][NextInsert]_vars

(***************************************************************************)
(* SpecRead: a track of up to two clips of full length read between seeks,  *)
(* changes of direction and edits.                                         *)
(***************************************************************************)
ReadClipIds == {1, 2}
ReadSeeks == {-1, 0, SrcDuration - 1, MaxPos}

NextRead ==
    \/ \E id \in ReadClipIds, start \in ClipStarts : DoInsertClip(id, start, 0, 0)
    \/ \E id \in ReadClipIds, start \in ClipStarts : DoMoveClip(id, start)
    \/ \E id \in ReadClipIds : DoRemoveClipById(id)
    \/ \E pos \in ReadSeeks : DoSeekTo(pos)
    \/ DoReadVideoFrame
    \/ \E forward \in BOOLEAN : DoSetDirection(forward)

SpecRead == Init /\ [][NextRead]_vars

(***************************************************************************)
(* SpecSeek: a track is filled and its direction chosen, then it is sought *)
(* and read, any number of times.                                          *)
(***************************************************************************)
Sought == m_readOverlapIter.k # "uninit"

NextSeek ==
    \/ /\ ~Sought
       /\ \E id \in ClipIds, start \in ClipStarts, o \in OffsetPairs :
             DoInsertClip(id, start, o[1], o[2])
    \/ /\ ~Sought
       /\ \E id \in ClipIds : DoRemoveClipById(id)
    \/ /\ ~Sought
       /\ \E forward \in BOOLEAN : DoSetDirection(forward)
    \/ \E pos \in (-1)..MaxPos : DoSeekTo(pos)
    \/ DoReadVideoFrame

SpecSeek == InitTrack /\ [][NextSeek]_vars

(***************************************************************************)
(* Part 3. The project, src/MecProject.cpp. The file system is reliable:   *)
(* a directory can be made, and a file can be written where its directory  *)
(* exists.                                                                 *)
(***************************************************************************)
VER_MAJOR == 1
VER_MINOR == 0
Shl(a, n) == a * 2^n
\* a | b for operands without a common bit
BitOr(a, b) == a + b

\* The Project object and the disk, as a record.
Proj ==
    [m_bOpened |-> m_bOpened, m_projName |-> m_projName,
     m_projDir |-> m_projDir, m_projFilePath |-> m_projFilePath,
     m_projVer |-> m_projVer, m_jnProjContent |-> m_jnProjContent, fs |-> fs]

SetProj(p) ==
    /\ m_bOpened' = p.m_bOpened
    /\ m_projName' = p.m_projName
    /\ m_projDir' = p.m_projDir
    /\ m_projFilePath' = p.m_projFilePath
    /\ m_projVer' = p.m_projVer
    /\ m_jnProjContent' = p.m_jnProjContent
    /\ fs' = p.fs

\* The members of the Project object, without the disk.
InMemory(p) ==
    <<p.m_bOpened, p.m_projName, p.m_projDir, p.m_projFilePath, p.m_projVer,
      p.m_jnProjContent>>

\* SysUtils::Exists, SysUtils::IsFile
Exists(disk, path) == path \in DOMAIN disk /\ disk[path].kind # "none"
IsFile(disk, path) == path \in DOMAIN disk /\ disk[path].kind = "file"

\* imgui_json::value::save(path): the file is written when its directory
\* exists. ok: it was written.
JsonSave(disk, path, doc) ==
    IF /\ path \in DOMAIN disk
       /\ disk[path].kind # "dir"
       /\ Exists(disk, ExtractDirectoryPath(path))
       /\ disk[ExtractDirectoryPath(path)].kind = "dir"
    THEN [ok |-> TRUE, disk |-> [disk EXCEPT ![path] = FileEntry(doc)]]
    ELSE [ok |-> FALSE, disk |-> disk]

\* Project::Save
Save(p) ==
    IF ~p.m_bOpened THEN [err |-> "NOT_OPENED", p |-> p]
    ELSE IF ~IsObject(p.m_jnProjContent) THEN [err |-> "TL_INVALID", p |-> p]
    ELSE LET jnProj == ProjDoc(p.m_projVer, p.m_projName, p.m_jnProjContent)
             w == JsonSave(p.fs, p.m_projFilePath, jnProj)
         IN  IF ~w.ok THEN [err |-> "FAILED", p |-> p]
             ELSE [err |-> "OK", p |-> [p EXCEPT !.fs = w.disk]]

\* Project::CreateNew
CreateNew(p, name, baseDir) ==
    LET saved == IF p.m_bOpened THEN Save(p) ELSE [err |-> "OK", p |-> p]
        p1 == saved.p
        projDir == JoinPath(baseDir, Comp(name, ""))
    IN  IF saved.err # "OK" THEN saved
        ELSE IF Exists(p1.fs, projDir) THEN [err |-> "ALREADY_EXISTS", p |-> p1]
        ELSE IF projDir \notin DOMAIN p1.fs THEN [err |-> "MKDIR_FAILED", p |-> p1]
        ELSE [err |-> "OK",
              p |-> [p1 EXCEPT
                        !.fs = [@ EXCEPT ![projDir] = DirEntry],
                        !.m_projName = name,
                        !.m_projDir = projDir,
                        !.m_projFilePath = JoinPath(projDir, Comp(name, "mep")),
                        !.m_projVer = BitOr(Shl(VER_MAJOR, 24), Shl(VER_MINOR, 16)),
                        !.m_bOpened = TRUE]]

\* Project::Load
Load(p, projFilePath) ==
    LET saved == IF p.m_bOpened THEN Save(p) ELSE [err |-> "OK", p |-> p]
        p1 == saved.p
        jnProj == p1.fs[projFilePath].doc
    IN  IF saved.err # "OK" THEN saved
        ELSE IF ~IsFile(p1.fs, projFilePath) THEN [err |-> "FILE_INVALID", p |-> p1]
        ELSE IF ~jnProj.parses THEN [err |-> "PARSE_FAILED", p |-> p1]
        ELSE IF jnProj.versioned
        THEN [err |-> "OK",
              p |-> [p1 EXCEPT
                        !.m_projVer = jnProj.ver,
                        !.m_jnProjContent = jnProj.content,
                        !.m_projName = jnProj.name,
                        !.m_projDir = ExtractDirectoryPath(projFilePath),
                        !.m_projFilePath = projFilePath,
                        !.m_bOpened = TRUE]]
        ELSE [err |-> "OK",
              p |-> [p1 EXCEPT
                        !.m_jnProjContent = jnProj.content,
                        !.m_projName = ExtractFileBaseName(projFilePath),
                        !.m_projFilePath = projFilePath,
                        !.m_bOpened = TRUE]]

\* Project::Close
Close(p, bSaveBeforeClose) ==
    LET saved == IF bSaveBeforeClose THEN Save(p) ELSE [err |-> "OK", p |-> p]
        p1 == saved.p
    IN  IF ~p.m_bOpened THEN [err |-> "OK", p |-> p]
        ELSE IF saved.err # "OK" THEN saved
        ELSE [err |-> "OK",
              p |-> [p1 EXCEPT
                        !.m_jnProjContent = JsonNull,
                        !.m_projDir = <<>>,
                        !.m_projName = "",
                        !.m_projFilePath = <<>>,
                        !.m_projVer = 0,
                        !.m_bOpened = FALSE]]

\* The public calls on a project, each one step (each takes m_mtxApiLock).
\* call.out: the error code and the argument of the call, as a path.
ProjCall(op, r, arg) ==
    /\ SetProj(r.p)
    /\ call' = [op |-> op, pos |-> 0, ret |-> r.err = "OK",
                out |-> [err |-> r.err, arg |-> arg]]
    /\ UNCHANGED notProjVars

DoCreateNew(name) ==
    \E r \in {CreateNew(Proj, name, BaseDir)} : ProjCall("CreateNew", r, <<Comp(name, "")>>)

DoLoad(projFilePath) ==
    \E r \in {Load(Proj, projFilePath)} : ProjCall("Load", r, projFilePath)

DoSave ==
    \E r \in {Save(Proj)} : ProjCall("Save", r, <<>>)

DoClose(bSaveBeforeClose) ==
    \E r \in {Close(Proj, bSaveBeforeClose)} :
        ProjCall("Close", r,
                 <<Comp(IF bSaveBeforeClose THEN "true" ELSE "false", "")>>)

LoadPaths ==
    {LegacyFile, LegacyArrayFile, BadFile, MissingFile}
        \cup {ProjDirOf(n) : n \in ProjNames}
        \cup {ProjFileOf(n) : n \in ProjNames}

NextProj ==
    \/ \E name \in ProjNames : DoCreateNew(name)
    \/ \E projFilePath \in LoadPaths : DoLoad(projFilePath)
    \/ DoSave
    \/ \E bSaveBeforeClose \in BOOLEAN : DoClose(bSaveBeforeClose)

SpecProj == Init /\ [][NextProj]_vars

(***************************************************************************)
(* Part 4. The decode pipeline of the player, src/MediaPlayer_FFImpl.cpp:  *)
(* the threads StartAllThreads starts, one step of a thread at a time. A   *)
(* thread that finds nothing to do sleeps: no step.                        *)
(***************************************************************************)
\* How many packets a codec holds before avcodec_send_packet says EAGAIN.
DecoderDelay == 1

\* The audio packet queue is followed up to one item past its maximum.
AudPktQCap == AudPktQMaxSize + 1

\* The streams a packet can belong to, for a source.
PacketStreams(src) ==
    {"other"} \cup (IF src.video THEN {"video"} ELSE {})
              \cup (IF src.audio THEN {"audio"} ELSE {})

\* The sources: video only, audio only, both.
Sources ==
    {[video |-> TRUE, audio |-> FALSE], [video |-> FALSE, audio |-> TRUE],
     [video |-> TRUE, audio |-> TRUE]}

InitPlayer ==
    /\ m_eventList = <<>>
    /\ call = NoCall
    /\ mut = Idle
    /\ InitTrackWith([num |-> 1000, den |-> 1])
    /\ InitProject
    /\ \E src \in Sources : InitPlayerWith(src.video, src.audio)
    /\ InitCtl
    /\ InitAux

\* A step of a player thread.
PlayerStep(op) ==
    /\ call' = [op |-> op, pos |-> 0, ret |-> TRUE, out |-> <<>>]
    /\ UNCHANGED notPlayerVars

\* DemuxThreadProc, one turn of its loop: av_read_frame when no packet is
\* held (read: the stream of the packet, or "eof"), then the packet goes to
\* the queue of its stream, or stays held.
DemuxThreadProc(read) ==
    /\ ~demux.m_demuxEof
    /\ LET stream == IF demux.avpktLoaded THEN demux.stream ELSE read
           pushVideo == stream = "video" /\ m_vidpktQ < qMaxSize.vidpkt
           pushAudio == /\ stream = "audio"
                        /\ (qMaxSize.vidpkt > 0 \/ m_audpktQ < qMaxSize.audpkt)
           gone == pushVideo \/ pushAudio \/ stream = "other"
       IN  /\ demux.avpktLoaded => read = demux.stream
           /\ pushAudio => m_audpktQ < AudPktQCap
           /\ IF stream = "eof"
              THEN /\ demux' = [demux EXCEPT !.m_demuxEof = TRUE]
                   /\ UNCHANGED <<m_vidpktQ, m_audpktQ>>
              ELSE /\ demux' = [demux EXCEPT
                                   !.avpktLoaded = ~gone,
                                   !.stream = IF gone THEN "none" ELSE stream]
                   /\ m_vidpktQ' = IF pushVideo THEN m_vidpktQ + 1 ELSE m_vidpktQ
                   /\ m_audpktQ' = IF pushAudio THEN m_audpktQ + 1 ELSE m_audpktQ
    /\ UNCHANGED <<streams, m_vidfrmQ, m_audfrmQ, m_swrfrmQ, qMaxSize, pushMax,
                   viddec, auddec>>
    /\ PlayerStep("DemuxThreadProc")

\* A decoder after avcodec_receive_frame: a frame when the codec holds a
\* packet; the end of the stream when it was flushed and holds none.
ReceiveFrame(dec) ==
    IF dec.pending > 0
    THEN [dec EXCEPT !.avfrmLoaded = TRUE, !.pending = @ - 1]
    ELSE [dec EXCEPT !.phase = "eof"]

CanReceive(dec) ==
    /\ dec.phase # "eof"
    /\ ~dec.avfrmLoaded
    /\ dec.pending > 0 \/ dec.phase = "flush"

\* A decoder after its input step: a packet of the queue goes to the codec,
\* or the codec is flushed when the queue is empty and the demuxer is done.
CanSend(dec, q) ==
    /\ dec.phase = "run"
    /\ (q > 0 /\ dec.pending < DecoderDelay) \/ (q = 0 /\ demux.m_demuxEof)

SendPacket(dec, q) ==
    IF q > 0 THEN [dec EXCEPT !.pending = @ + 1] ELSE [dec EXCEPT !.phase = "flush"]

\* VideoDecodeThreadProc: avcodec_receive_frame
VideoDecodeReceive ==
    /\ streams.video
    /\ CanReceive(viddec)
    /\ viddec' = ReceiveFrame(viddec)
    /\ UNCHANGED <<streams, m_vidpktQ, m_audpktQ, m_vidfrmQ, m_audfrmQ, m_swrfrmQ,
                   qMaxSize, pushMax, demux, auddec>>
    /\ PlayerStep("VideoDecodeThreadProc")

\* VideoDecodeThreadProc: the held frame goes to the video frame queue when
\* it is not full; otherwise the thread keeps it.
VideoDecodePush ==
    /\ streams.video
    /\ viddec.phase # "eof"
    /\ viddec.avfrmLoaded
    /\ m_vidfrmQ < qMaxSize.vidfrm
    /\ m_vidfrmQ' = m_vidfrmQ + 1
    /\ viddec' = [viddec EXCEPT !.avfrmLoaded = FALSE]
    /\ UNCHANGED <<streams, m_vidpktQ, m_audpktQ, m_audfrmQ, m_swrfrmQ, qMaxSize,
                   pushMax, demux, auddec>>
    /\ PlayerStep("VideoDecodeThreadProc")

\* VideoDecodeThreadProc: avcodec_send_packet
VideoDecodeSend ==
    /\ streams.video
    /\ CanSend(viddec, m_vidpktQ)
    /\ viddec' = SendPacket(viddec, m_vidpktQ)
    /\ m_vidpktQ' = IF m_vidpktQ > 0 THEN m_vidpktQ - 1 ELSE 0
    /\ UNCHANGED <<streams, m_audpktQ, m_vidfrmQ, m_audfrmQ, m_swrfrmQ, qMaxSize,
                   pushMax, demux, auddec>>
    /\ PlayerStep("VideoDecodeThreadProc")

\* m_audfrmQMaxSize = ceil(m_swrfrmQMaxSize / 5)
AudFrmQMaxOf(swrfrmQMaxSize) == (swrfrmQMaxSize + 4) \div 5

\* AudioDecodeThreadProc: avcodec_receive_frame; a frame updates the
\* average frame duration and with it the maxima of the audio frame queue
\* and of the resampled frame queue (swrMax: the new m_swrfrmQMaxSize).
AudioDecodeReceive(swrMax) ==
    /\ streams.audio
    /\ CanReceive(auddec)
    /\ auddec' = ReceiveFrame(auddec)
    /\ IF auddec.pending > 0
       THEN qMaxSize' = [qMaxSize EXCEPT !.swrfrm = swrMax,
                                         !.audfrm = AudFrmQMaxOf(swrMax)]
       ELSE swrMax = qMaxSize.swrfrm /\ UNCHANGED qMaxSize
    /\ UNCHANGED <<streams, m_vidpktQ, m_audpktQ, m_vidfrmQ, m_audfrmQ, m_swrfrmQ,
                   pushMax, demux, viddec>>
    /\ PlayerStep("AudioDecodeThreadProc")

\* AudioDecodeThreadProc: the held frame goes to the audio frame queue when
\* it is not full; otherwise the thread keeps it.
AudioDecodePush ==
    /\ streams.audio
    /\ auddec.phase # "eof"
    /\ auddec.avfrmLoaded
    /\ m_audfrmQ < qMaxSize.audfrm
    /\ m_audfrmQ' = m_audfrmQ + 1
    /\ pushMax' = [pushMax EXCEPT !.audfrm = qMaxSize.audfrm]
    /\ auddec' = [auddec EXCEPT !.avfrmLoaded = FALSE]
    /\ UNCHANGED <<streams, m_vidpktQ, m_audpktQ, m_vidfrmQ, m_swrfrmQ, qMaxSize,
                   demux, viddec>>
    /\ PlayerStep("AudioDecodeThreadProc")

\* AudioDecodeThreadProc: avcodec_send_packet
AudioDecodeSend ==
    /\ streams.audio
    /\ CanSend(auddec, m_audpktQ)
    /\ auddec' = SendPacket(auddec, m_audpktQ)
    /\ m_audpktQ' = IF m_audpktQ > 0 THEN m_audpktQ - 1 ELSE 0
    /\ UNCHANGED <<streams, m_vidpktQ, m_vidfrmQ, m_audfrmQ, m_swrfrmQ, qMaxSize,
                   pushMax, demux, viddec>>
    /\ PlayerStep("AudioDecodeThreadProc")

\* SwrThreadProc: a frame of the audio frame queue is converted and goes to
\* the resampled frame queue when that is not full.
SwrThreadProc ==
    /\ streams.audio
    /\ m_audfrmQ > 0
    /\ m_swrfrmQ < qMaxSize.swrfrm
    /\ m_audfrmQ' = m_audfrmQ - 1
    /\ m_swrfrmQ' = m_swrfrmQ + 1
    /\ pushMax' = [pushMax EXCEPT !.swrfrm = qMaxSize.swrfrm]
    /\ UNCHANGED <<streams, m_vidpktQ, m_audpktQ, m_vidfrmQ, qMaxSize, demux,
                   viddec, auddec>>
    /\ PlayerStep("SwrThreadProc")

\* RenderThreadProc: the frame at the head of the video frame queue is
\* shown when its time has come.
RenderThreadProc ==
    /\ streams.video
    /\ m_vidfrmQ > 0
    /\ m_vidfrmQ' = m_vidfrmQ - 1
    /\ UNCHANGED <<streams, m_vidpktQ, m_audpktQ, m_audfrmQ, m_swrfrmQ, qMaxSize,
                   pushMax, demux, viddec, auddec>>
    /\ PlayerStep("RenderThreadProc")

\* AudioByteStream::Read, on the audio device's thread: a resampled frame
\* is taken.
AudioByteStreamRead ==
    /\ m_swrfrmQ > 0
    /\ m_swrfrmQ' = m_swrfrmQ - 1
    /\ UNCHANGED <<streams, m_vidpktQ, m_audpktQ, m_vidfrmQ, m_audfrmQ, qMaxSize,
                   pushMax, demux, viddec, auddec>>
    /\ PlayerStep("AudioByteStreamRead")

SwrFrmQMaxSizes == 1..SwrFrmQMaxSize

NextPlayer ==
    \/ \E read \in PacketStreams(streams) \cup {"eof"} : DemuxThreadProc(read)
    \/ VideoDecodeReceive
    \/ VideoDecodePush
    \/ VideoDecodeSend
    \/ \E swrMax \in SwrFrmQMaxSizes : AudioDecodeReceive(swrMax)
    \/ AudioDecodePush
    \/ AudioDecodeSend
    \/ SwrThreadProc
    \/ RenderThreadProc
    \/ AudioByteStreamRead

SpecPlayer == InitPlayer /\ [][NextPlayer]_vars

(***************************************************************************)
(* Part 5. The player's public calls and the life of its threads,          *)
(* src/MediaPlayer_FFImpl.cpp. A public call holds m_ctlLock from its      *)
(* first line to its return, so no two public calls interleave; a call     *)
(* that waits for the threads takes two steps: it sets the quit flag, and  *)
(* it goes on when every join has returned. A thread takes one step for     *)
(* one turn of a loop of its procedure, and it reads a flag as the flag is *)
(* at that step (every turn of every loop calls into a library, so the     *)
(* flags, which are plain bools, are read again each turn).                *)
(***************************************************************************)
\* The time stamps and positions of the modelled source: 0..MaxMts.
MaxMts == 2

\* The player's variables as one record, and the step that assigns them.
Player ==
    [streams |-> streams, m_vidpktQ |-> m_vidpktQ, m_audpktQ |-> m_audpktQ,
     m_vidfrmQ |-> m_vidfrmQ, m_audfrmQ |-> m_audfrmQ, m_swrfrmQ |-> m_swrfrmQ,
     qMaxSize |-> qMaxSize, pushMax |-> pushMax, demux |-> demux,
     viddec |-> viddec, auddec |-> auddec,
     m_avfmtCtx |-> m_avfmtCtx, m_quitPlay |-> m_quitPlay,
     m_isPlaying |-> m_isPlaying, m_isAfterSeek |-> m_isAfterSeek,
     m_isSeekToI |-> m_isSeekToI, m_seekToMts |-> m_seekToMts,
     m_isSeeking |-> m_isSeeking, m_asyncSeekPos |-> m_asyncSeekPos,
     m_isPlayingBeforeSeek |-> m_isPlayingBeforeSeek,
     m_errMessage |-> m_errMessage, m_demuxThread |-> m_demuxThread,
     m_viddecThread |-> m_viddecThread, m_auddecThread |-> m_auddecThread,
     m_audswrThread |-> m_audswrThread, m_renderThread |-> m_renderThread,
     api |-> api, pts |-> pts, avfrm |-> avfrm, now |-> now,
     m_runStartTp |-> m_runStartTp, m_pauseStartTp |-> m_pauseStartTp,
     m_pausedDur |-> m_pausedDur, m_posOffset |-> m_posOffset,
     m_playPos |-> m_playPos, hist |-> hist]

SetPlayer(p) ==
    /\ streams' = p.streams
    /\ m_vidpktQ' = p.m_vidpktQ
    /\ m_audpktQ' = p.m_audpktQ
    /\ m_vidfrmQ' = p.m_vidfrmQ
    /\ m_audfrmQ' = p.m_audfrmQ
    /\ m_swrfrmQ' = p.m_swrfrmQ
    /\ qMaxSize' = p.qMaxSize
    /\ pushMax' = p.pushMax
    /\ demux' = p.demux
    /\ viddec' = p.viddec
    /\ auddec' = p.auddec
    /\ m_avfmtCtx' = p.m_avfmtCtx
    /\ m_quitPlay' = p.m_quitPlay
    /\ m_isPlaying' = p.m_isPlaying
    /\ m_isAfterSeek' = p.m_isAfterSeek
    /\ m_isSeekToI' = p.m_isSeekToI
    /\ m_seekToMts' = p.m_seekToMts
    /\ m_isSeeking' = p.m_isSeeking
    /\ m_asyncSeekPos' = p.m_asyncSeekPos
    /\ m_isPlayingBeforeSeek' = p.m_isPlayingBeforeSeek
    /\ m_errMessage' = p.m_errMessage
    /\ m_demuxThread' = p.m_demuxThread
    /\ m_viddecThread' = p.m_viddecThread
    /\ m_auddecThread' = p.m_auddecThread
    /\ m_audswrThread' = p.m_audswrThread
    /\ m_renderThread' = p.m_renderThread
    /\ api' = p.api
    /\ pts' = p.pts
    /\ avfrm' = p.avfrm
    /\ now' = p.now
    /\ m_runStartTp' = p.m_runStartTp
    /\ m_pauseStartTp' = p.m_pauseStartTp
    /\ m_pausedDur' = p.m_pausedDur
    /\ m_posOffset' = p.m_posOffset
    /\ m_playPos' = p.m_playPos
    /\ hist' = p.hist

\* A joinable thread whose procedure has not returned.
Running(th) == th.proc # "none" /\ th.pc # "done"

\* The threads of a player.
ThreadsOf(p) ==
    {p.m_demuxThread, p.m_viddecThread, p.m_auddecThread, p.m_audswrThread,
     p.m_renderThread}

\* StartAllThreads, lines 1602-1614
StartAllThreads(p) ==
    [p EXCEPT
        !.m_quitPlay = FALSE,
        !.m_demuxThread = ThreadOf("DemuxThreadProc"),
        !.m_viddecThread =
            IF p.streams.video THEN ThreadOf("VideoDecodeThreadProc") ELSE @,
        !.m_auddecThread =
            IF p.streams.audio THEN ThreadOf("AudioDecodeThreadProc") ELSE @,
        !.m_audswrThread =
            IF p.streams.audio THEN ThreadOf("SwrThreadProc") ELSE @,
        !.m_renderThread = ThreadOf("RenderThreadProc")]

\* StartAllThreads_SeekAsync, lines 1616-1628
StartAllThreads_SeekAsync(p) ==
    [p EXCEPT
        !.m_quitPlay = FALSE,
        !.pts = [@ EXCEPT !.win = -1],
        !.m_demuxThread = ThreadOf("DemuxThreadProc_SeekAsync"),
        !.m_viddecThread =
            IF p.streams.video THEN ThreadOf("VideoDecodeThreadProc") ELSE @,
        !.m_auddecThread =
            IF p.streams.video THEN @ ELSE ThreadOf("AudioDecodeThreadProc"),
        !.m_audswrThread =
            IF p.streams.video THEN @ ELSE ThreadOf("SwrThreadProc"),
        !.m_renderThread = ThreadOf("RenderThreadProc_SeekAsync")]

\* WaitAllThreadsQuit without its last line (m_isPlaying = false).
WaitAllThreadsQuit_KeepsPlaying(p) ==
    [p EXCEPT !.m_demuxThread = NoThread, !.m_viddecThread = NoThread,
              !.m_auddecThread = NoThread, !.m_audswrThread = NoThread,
              !.m_renderThread = NoThread]

\* WaitAllThreadsQuit, lines 1633-1658, once the quit flag is set (1632)
\* and every join has returned.
WaitAllThreadsQuit(p) ==
    [p EXCEPT !.m_demuxThread = NoThread, !.m_viddecThread = NoThread,
              !.m_auddecThread = NoThread, !.m_audswrThread = NoThread,
              !.m_renderThread = NoThread, !.m_isPlaying = FALSE]

\* FlushAllQueues, lines 1661-1678
FlushAllQueues(p) ==
    [p EXCEPT !.m_vidpktQ = 0, !.m_audpktQ = 0, !.m_vidfrmQ = 0,
              !.m_audfrmQ = 0, !.m_swrfrmQ = 0]

\* avcodec_flush_buffers of both codecs, and of the video codec only.
FlushBuffers(p, audioToo) ==
    [p EXCEPT !.viddec = DecoderStart,
              !.auddec = IF audioToo THEN DecoderStart ELSE @]

\* avformat_seek_file that succeeded: the demuxer stands at a key frame at
\* or before the position, vid for the video stream and aud for the audio
\* stream.
SeekFile(p, vid, aud) == [p EXCEPT !.pts = [@ EXCEPT !.vid = vid, !.aud = aud]]

\* m_demuxEof = m_viddecEof = m_auddecEof = false, as every call that has
\* waited for the threads does; the locals of the threads are gone with
\* them. (m_renderEof is reset with them and is true only in between, so
\* Play never finds it set: it is not modelled.)
ResetEof(p) ==
    [p EXCEPT !.demux = [avpktLoaded |-> FALSE, stream |-> "none", m_demuxEof |-> FALSE],
              !.viddec = [@ EXCEPT !.avfrmLoaded = FALSE, !.phase = "run"],
              !.auddec = [@ EXCEPT !.avfrmLoaded = FALSE, !.phase = "run"]]

\* What a public call gives: what it returns, the player as it leaves it,
\* and what it did to the pipeline, in the order of the code.
Returns(ret, p, ev) == [ret |-> ret, p |-> [p EXCEPT !.api = NoApi], ev |-> ev]

\* if (!IsOpened()) { m_errMessage = ...; return false; }
NotOpened(p) ==
    Returns(FALSE, [p EXCEPT !.m_errMessage = "No media has been opened!"], <<>>)

\* A public call at WaitAllThreadsQuit, line 1632: the quit flag is set and
\* the joins begin. isPlaying is the caller's copy of m_isPlaying.
BeginWait(p, op, pos, seekToI) ==
    [ret |-> TRUE, ev |-> <<>>,
     p |-> [p EXCEPT !.m_quitPlay = TRUE,
                     !.api = [op |-> op, pos |-> pos, seekToI |-> seekToI,
                              isPlaying |-> p.m_isPlaying]]]

\* What line 1287 computes at the time p.now.
PlayClock(p) == (p.now - p.m_runStartTp) + p.m_posOffset - p.m_pausedDur

\* MediaPlayer_FFImpl::Play, lines 132-169
Play(p) ==
    IF p.m_isPlaying THEN Returns(TRUE, p, <<>>)
    ELSE IF ~p.m_avfmtCtx THEN NotOpened(p)
    ELSE IF ~p.streams.video /\ ~p.streams.audio
    THEN Returns(FALSE, [p EXCEPT !.m_errMessage = "No video nor audio is to be played!"],
                 <<>>)
    ELSE LET resumed == p.m_pauseStartTp # -1
             p1 == IF p.streams.audio THEN p
                   ELSE [p EXCEPT
                            !.m_runStartTp = IF @ = -1 THEN p.now ELSE @,
                            !.m_pausedDur =
                                IF resumed THEN @ + (p.now - p.m_pauseStartTp) ELSE @,
                            !.m_pauseStartTp = -1]
             start == p.m_renderThread.proc = "none"
             p2 == IF start THEN StartAllThreads(p1) ELSE p1
         IN  Returns(TRUE, [p2 EXCEPT !.m_isPlaying = TRUE,
                                      !.hist = [@ EXCEPT !.paused = FALSE, !.pausePos = 0]],
                     IF start THEN <<"StartAllThreads">> ELSE <<>>)

\* MediaPlayer_FFImpl::Pause, lines 171-185. The history notes what the
\* clock of a player without audio shows when playing stops.
Pause(p) ==
    IF ~p.m_avfmtCtx THEN NotOpened(p)
    ELSE Returns(TRUE,
                 [p EXCEPT !.m_pauseStartTp = IF p.streams.audio THEN @ ELSE p.now,
                           !.m_isPlaying = FALSE,
                           !.hist = IF p.m_isPlaying /\ ~p.streams.audio
                                    THEN [@ EXCEPT !.paused = TRUE,
                                                   !.pausePos = PlayClock(p)]
                                    ELSE @],
                 <<>>)

\* The members Reset and Close set back, lines 215-219 and 117-121.
ResetClock(p) ==
    [p EXCEPT !.m_runStartTp = -1, !.m_pauseStartTp = -1, !.m_playPos = 0,
              !.m_posOffset = 0, !.m_pausedDur = 0]

\* MediaPlayer_FFImpl::Reset, lines 187-228, up to the wait and after it.
\* fferr is what avformat_seek_file returns.
Reset(p) ==
    IF ~p.m_avfmtCtx THEN NotOpened(p) ELSE BeginWait(p, "Reset", -1, FALSE)

Reset_AfterWait(p, fferr) ==
    LET p1 == ResetClock(ResetEof(FlushBuffers(
                  FlushAllQueues(WaitAllThreadsQuit(p)), TRUE)))
        ev == <<"FlushAllQueues", "avcodec_flush_buffers", "avformat_seek_file">>
    IN  IF fferr < 0
        THEN Returns(FALSE, [p1 EXCEPT !.m_errMessage = "avformat_seek_file(In Reset)"], ev)
        ELSE Returns(TRUE, [SeekFile(p1, 0, 0) EXCEPT
                               !.hist = [NoSeek EXCEPT !.scrub = p.hist.scrub,
                                                       !.target = p.hist.target]], ev)

\* MediaPlayer_FFImpl::Seek, lines 230-282. vid and aud: where the demuxer
\* stands after the seek.
Seek(p, pos, seekToI) ==
    IF ~p.m_avfmtCtx THEN NotOpened(p) ELSE BeginWait(p, "Seek", pos, seekToI)

Seek_AfterWait(p, fferr, vid, aud) ==
    LET p1 == [ResetEof(FlushBuffers(FlushAllQueues(WaitAllThreadsQuit(p)), TRUE))
                  EXCEPT !.m_pauseStartTp = -1]
        ev == <<"FlushAllQueues", "avcodec_flush_buffers", "avformat_seek_file">>
        p2 == [SeekFile(p1, vid, aud) EXCEPT
                  !.m_isSeekToI = p.api.seekToI,
                  !.m_isAfterSeek = TRUE,
                  !.m_seekToMts = p.api.pos,
                  !.hist = [NoSeek EXCEPT !.pos = p.api.pos,
                                          !.seekToI = p.api.seekToI,
                                          !.scrub = p.hist.scrub,
                                          !.target = p.hist.target]]
    IN  IF fferr < 0
        THEN Returns(FALSE, [p1 EXCEPT !.m_errMessage = "avformat_seek_file(In Seek)"], ev)
        ELSE IF p.api.isPlaying
        THEN Returns(TRUE, [StartAllThreads(p2) EXCEPT !.m_isPlaying = TRUE],
                     Append(ev, "StartAllThreads"))
        ELSE Returns(TRUE, p2, ev)

\* MediaPlayer_FFImpl::SeekAsync, lines 284-326
SeekAsync(p, pos) ==
    IF ~p.m_avfmtCtx THEN NotOpened(p)
    ELSE IF ~p.m_isSeeking
    THEN BeginWait([p EXCEPT !.m_isPlayingBeforeSeek = p.m_isPlaying],
                   "SeekAsync", pos, FALSE)
    ELSE Returns(TRUE, [p EXCEPT !.m_asyncSeekPos = pos,
                                 !.hist = [@ EXCEPT !.target = pos]], <<>>)

SeekAsync_AfterWait(p) ==
    LET p1 == [ResetEof(FlushBuffers(FlushAllQueues(WaitAllThreadsQuit(p)), TRUE))
                  EXCEPT !.m_pauseStartTp = -1,
                         !.hist = [NoSeek EXCEPT !.scrub = p.api.isPlaying,
                                                 !.target = p.api.pos]]
    IN  Returns(TRUE,
                [StartAllThreads_SeekAsync(p1) EXCEPT !.m_isSeeking = TRUE,
                                                      !.m_asyncSeekPos = p.api.pos],
                <<"FlushAllQueues", "avcodec_flush_buffers", "StartAllThreads">>)

\* MediaPlayer_FFImpl::QuitSeekAsync, lines 328-379. The audio codec is
\* not flushed.
QuitSeekAsync(p) ==
    IF ~p.m_avfmtCtx THEN NotOpened(p)
    ELSE IF p.m_isSeeking THEN BeginWait(p, "QuitSeekAsync", -1, FALSE)
    ELSE Returns(TRUE, p, <<>>)

QuitSeekAsync_AfterWait(p, fferr, vid, aud) ==
    LET p1 == [ResetEof(FlushBuffers(FlushAllQueues(WaitAllThreadsQuit(p)), FALSE))
                  EXCEPT !.m_pauseStartTp = -1]
        ev == <<"FlushAllQueues", "avcodec_flush_buffers", "avformat_seek_file">>
        p2 == [SeekFile(p1, vid, aud) EXCEPT
                  !.m_isSeekToI = FALSE,
                  !.m_isAfterSeek = TRUE,
                  !.m_seekToMts = p.m_asyncSeekPos,
                  !.m_isSeeking = FALSE,
                  !.hist = NoSeek]
    IN  IF fferr < 0
        THEN Returns(FALSE,
                     [p1 EXCEPT !.m_errMessage = "avformat_seek_file(In QuitSeekAsync)"],
                     ev)
        ELSE IF p.m_isPlayingBeforeSeek
        THEN Returns(TRUE, [StartAllThreads(p2) EXCEPT !.m_isPlaying = TRUE],
                     Append(ev, "StartAllThreads"))
        ELSE Returns(TRUE, p2, ev)

\* MediaPlayer_FFImpl::Close, lines 64-130: the codecs and the demuxer are
\* freed, no stream is left.
Close_AfterWait(p) ==
    LET p1 == ResetClock(ResetEof(FlushBuffers(
                  FlushAllQueues(WaitAllThreadsQuit(p)), TRUE)))
    IN  Returns(TRUE,
                [p1 EXCEPT !.m_avfmtCtx = FALSE,
                           !.streams = [video |-> FALSE, audio |-> FALSE],
                           !.qMaxSize = [@ EXCEPT !.vidpkt = 0,
                                                  !.audfrm = AudFrmQMaxSize,
                                                  !.swrfrm = SwrFrmQMaxSize],
                           !.m_errMessage = "",
                           !.hist = NoSeek],
                <<"FlushAllQueues">>)

(***************************************************************************)
(* The thread procedures, one turn of a loop at a step. A step gives the   *)
(* player as the turn leaves it and what the turn did (ev). A thread that  *)
(* leaves its loop sets its end flag and is done: its join returns.        *)
(***************************************************************************)
Did(p, ev) == [p |-> p, ev |-> ev]

\* DemuxThreadProc, lines 704-777. read: the stream of the packet
\* av_read_frame gives, or "eof" for the end of the source or an error.
DemuxThreadStep(p, read) ==
    LET d == p.demux
        stream == IF d.avpktLoaded THEN d.stream ELSE read
        pushVideo == stream = "video" /\ p.m_vidpktQ < p.qMaxSize.vidpkt
        pushAudio == /\ stream = "audio"
                     /\ (p.qMaxSize.vidpkt > 0 \/ p.m_audpktQ < p.qMaxSize.audpkt)
        gone == pushVideo \/ pushAudio \/ stream = "other"
    IN  IF p.m_quitPlay \/ stream = "eof"
        THEN Did([p EXCEPT !.demux = [d EXCEPT !.m_demuxEof = TRUE, !.avpktLoaded = FALSE,
                                               !.stream = "none"],
                           !.m_demuxThread = [@ EXCEPT !.pc = "done"]],
                 <<>>)
        ELSE Did([p EXCEPT !.demux = [d EXCEPT !.avpktLoaded = ~gone,
                                               !.stream = IF gone THEN "none" ELSE stream],
                           !.m_vidpktQ = IF pushVideo THEN @ + 1 ELSE @,
                           !.m_audpktQ = IF pushAudio THEN @ + 1 ELSE @],
                 <<>>)

\* DemuxThreadProc_SeekAsync, lines 779-930. The window [seekPos0,
\* seekPos1) is modelled by the one position pts.win the thread last
\* sought the demuxer to; when the target is another one the thread seeks
\* the demuxer itself (805, 819; fferr) and reads on from a key frame vid
\* at or before the target. Audio packets are queued only without a video
\* stream.
Retargets(p) ==
    p.streams.video /\ p.m_asyncSeekPos # -1 /\ p.m_asyncSeekPos # p.pts.win

DemuxThreadStep_SeekAsync(p, read, fferr, vid) ==
    LET d == p.demux
        target == p.m_asyncSeekPos
        seeks == Retargets(p)
        loaded == d.avpktLoaded /\ ~seeks
        stream == IF loaded THEN d.stream ELSE read
        pushVideo == stream = "video" /\ p.m_vidpktQ < p.qMaxSize.vidpkt
        pushAudio == /\ stream = "audio" /\ ~p.streams.video
                     /\ (p.qMaxSize.vidpkt > 0 \/ p.m_audpktQ < p.qMaxSize.audpkt)
        gone == pushVideo \/ pushAudio \/ stream \notin {"video", "audio"}
                \/ (stream = "audio" /\ p.streams.video)
        ev == IF seeks THEN <<"avformat_seek_file">> ELSE <<>>
        left == [p EXCEPT !.demux = [d EXCEPT !.m_demuxEof = TRUE, !.avpktLoaded = FALSE,
                                              !.stream = "none"],
                          !.m_demuxThread = [@ EXCEPT !.pc = "done"]]
    IN  IF p.m_quitPlay THEN Did(left, <<>>)
        ELSE IF (seeks /\ fferr < 0) \/ stream = "eof" THEN Did(left, ev)
        ELSE Did([p EXCEPT !.demux = [d EXCEPT !.avpktLoaded = ~gone,
                                               !.stream = IF gone THEN "none" ELSE stream],
                           !.m_vidpktQ = IF pushVideo THEN @ + 1 ELSE @,
                           !.m_audpktQ = IF pushAudio THEN @ + 1 ELSE @,
                           !.pts = IF seeks THEN [@ EXCEPT !.vid = vid, !.win = target]
                                   ELSE @],
                 ev)

\* The members of a decode thread, by its kind: "vid" or "aud".
DecOf(kind) == IF kind = "vid" THEN "viddec" ELSE "auddec"
DecThreadOf(kind) == IF kind = "vid" THEN "m_viddecThread" ELSE "m_auddecThread"
PktQOf(kind) == IF kind = "vid" THEN "m_vidpktQ" ELSE "m_audpktQ"
FrmQOf(kind) == IF kind = "vid" THEN "m_vidfrmQ" ELSE "m_audfrmQ"
FrmQMaxOf(p, kind) == IF kind = "vid" THEN p.qMaxSize.vidfrm ELSE p.qMaxSize.audfrm

\* A decode thread leaves its loop: m_viddecEof / m_auddecEof = true
\* (1076, 1195), a held frame is released.
DecodeLeave(p, kind, ev) ==
    Did([p EXCEPT ![DecOf(kind)] = [@ EXCEPT !.avfrmLoaded = FALSE, !.phase = "eof"],
                  ![DecThreadOf(kind)] = [@ EXCEPT !.pc = "done"],
                  !.avfrm = [@ EXCEPT ![kind] = 0]],
        ev)

\* "handle seeking operation" on a frame just received, its time stamp mts:
\* lines 987-1001 for video and 1109-1125 for audio. dropped: the frame is
\* released. The history notes the first video frame after a Seek and each
\* time m_isSeekToI is taken.
AfterSeekFrame(p, kind, mts) ==
    LET takes == /\ p.m_isAfterSeek /\ p.m_isSeekToI
                 /\ (kind = "vid" => ~p.streams.audio)
        seekToMts == IF takes THEN mts ELSE p.m_seekToMts
        dropped == p.m_isAfterSeek /\ mts < seekToMts
        first == kind = "vid" /\ p.hist.pos # -1 /\ ~p.hist.vidSeen
    IN  [dropped |-> dropped,
         p |-> [p EXCEPT
                   !.m_seekToMts = seekToMts,
                   !.m_isSeekToI = IF takes THEN FALSE ELSE @,
                   !.m_isAfterSeek =
                       IF kind = "aud" /\ ~p.streams.video THEN FALSE ELSE @,
                   !.hist = [@ EXCEPT
                                !.consumed = IF takes THEN @ + 1 ELSE @,
                                !.vidSeen = @ \/ first,
                                !.vidFirst = IF first THEN mts ELSE @,
                                !.vidKept = IF first THEN ~dropped ELSE @]]]

\* The frame a decode thread holds goes to its frame queue when that is not
\* full (1019-1032, 1138-1151): the receive loop goes on, or it is left for
\* the input part.
PushFrame(p, kind) ==
    IF p[FrmQOf(kind)] < FrmQMaxOf(p, kind)
    THEN Did([p EXCEPT ![FrmQOf(kind)] = @ + 1,
                       ![DecOf(kind)] = [@ EXCEPT !.avfrmLoaded = FALSE],
                       !.avfrm = [@ EXCEPT ![kind] = 0],
                       !.pushMax = IF kind = "aud"
                                   THEN [@ EXCEPT !.audfrm = p.qMaxSize.audfrm] ELSE @],
             <<>>)
    ELSE Did([p EXCEPT ![DecThreadOf(kind)] = [@ EXCEPT !.pc = "send"]], <<>>)

\* VideoDecodeThreadProc, lines 965-1080, and AudioDecodeThreadProc, lines
\* 1082-1199: the loop head, one turn of the receive loop, one turn of the
\* send loop with what follows it. fferr: "error" when the codec call of
\* this turn fails with an error that is neither EAGAIN nor EOF. The codec
\* gives a frame for each packet it holds. The time stamps go up, to MaxMts
\* at most, while m_isAfterSeek is set: the code reads a time stamp only
\* then, so the stamp of the next frame is followed up to the frame that
\* comes first once the flag is cleared. avfrm is the stamp of the frame
\* the thread holds. The maxima of the audio queues stay as they are here.
DecodeThreadStep(p, kind, fferr) ==
    LET d == p[DecOf(kind)]
        pc == p[DecThreadOf(kind)].pc
        Goto(q, to) == [q EXCEPT ![DecThreadOf(kind)] = [@ EXCEPT !.pc = to]]
    IN  IF pc = "head"
        THEN IF p.m_quitPlay THEN DecodeLeave(p, kind, <<>>)
             ELSE Did(Goto(p, "recv"), <<>>)
        ELSE IF pc = "recv"
        THEN IF d.avfrmLoaded THEN PushFrame(p, kind)
             ELSE IF fferr = "error"
             THEN DecodeLeave(p, kind, <<"avcodec_receive_frame", kind>>)
             ELSE IF d.pending > 0
             THEN LET mts == p.pts[kind]
                      got == [p EXCEPT
                                 ![DecOf(kind)] = [@ EXCEPT !.pending = @ - 1,
                                                            !.avfrmLoaded = TRUE],
                                 !.pts = [@ EXCEPT ![kind] =
                                             IF p.m_isAfterSeek THEN Min(mts + 1, MaxMts)
                                             ELSE @],
                                 !.avfrm = [@ EXCEPT ![kind] = mts]]
                      r == AfterSeekFrame(got, kind, mts)
                  IN  IF r.dropped
                      THEN Did(Goto([r.p EXCEPT ![DecOf(kind)] =
                                            [@ EXCEPT !.avfrmLoaded = FALSE],
                                        !.avfrm = [@ EXCEPT ![kind] = 0]], "send"),
                               <<>>)
                      ELSE PushFrame(r.p, kind)
             ELSE IF d.phase = "flush" THEN DecodeLeave(p, kind, <<>>)
             ELSE Did(Goto(p, "send"), <<>>)
        ELSE IF d.phase # "run" THEN Did(Goto(p, "head"), <<>>)
        ELSE IF p[PktQOf(kind)] > 0
        THEN IF fferr = "error"
             THEN DecodeLeave(p, kind, <<"avcodec_send_packet", kind>>)
             ELSE IF d.pending < DecoderDelay
             THEN Did([p EXCEPT ![PktQOf(kind)] = @ - 1,
                                ![DecOf(kind)] = [@ EXCEPT !.pending = @ + 1]],
                      <<>>)
             ELSE Did(Goto(p, "head"), <<>>)
        ELSE IF p.demux.m_demuxEof
        THEN Did(Goto([p EXCEPT ![DecOf(kind)] = [@ EXCEPT !.phase = "flush"]], "head"),
                 <<>>)
        ELSE Did(Goto(p, "head"), <<>>)

\* SwrThreadProc, lines 1201-1264. fferr: "error" when the conversion of
\* this turn fails (1230, 1238): the error message is set and the loop is
\* left.
SwrThreadStep(p, fferr) ==
    LET Leave(q) == [q EXCEPT !.m_audswrThread = [@ EXCEPT !.pc = "done"]]
    IN  IF p.m_quitPlay THEN Did(Leave(p), <<>>)
        ELSE IF p.m_audfrmQ > 0
        THEN IF p.m_swrfrmQ >= p.qMaxSize.swrfrm THEN Did(p, <<>>)
             ELSE IF fferr = "error"
             THEN Did(Leave([p EXCEPT !.m_errMessage = "swr_convert(SwrThreadProc)"]),
                      <<"swr_convert">>)
             ELSE Did([p EXCEPT !.m_audfrmQ = @ - 1, !.m_swrfrmQ = @ + 1,
                                !.pushMax = [@ EXCEPT !.swrfrm = p.qMaxSize.swrfrm]],
                      <<>>)
        ELSE IF p.auddec.phase = "eof" THEN Did(Leave(p), <<>>)
        ELSE Did(p, <<>>)

\* The end of the input as the decode threads test it, lines 1065 and
\* 1184: m_vidpktQ.size() == 0 && m_demuxEof are two reads with no lock
\* held, and the demux thread can run between them. A turn of a decode
\* thread with the two reads as two steps: the first finds the queue empty
\* ("empty"), the second reads the flag.
DecodeThreadStep_TwoReads(p, kind) ==
    LET d == p[DecOf(kind)]
        pc == p[DecThreadOf(kind)].pc
        Goto(q, to) == [q EXCEPT ![DecThreadOf(kind)] = [@ EXCEPT !.pc = to]]
    IN  IF pc = "send" /\ d.phase = "run" /\ p[PktQOf(kind)] = 0
        THEN Did(Goto(p, "empty"), <<>>)
        ELSE IF pc = "empty"
        THEN IF p.demux.m_demuxEof
             THEN Did(Goto([p EXCEPT ![DecOf(kind)] = [@ EXCEPT !.phase = "flush"]],
                           "head"),
                      <<>>)
             ELSE Did(Goto(p, "head"), <<>>)
        ELSE DecodeThreadStep(p, kind, "ok")

\* The same for the resample thread, lines 1206 and 1257: m_audfrmQ.empty()
\* and then m_auddecEof.
SwrThreadStep_TwoReads(p) ==
    LET Goto(to) == [p EXCEPT !.m_audswrThread = [@ EXCEPT !.pc = to]]
    IN  IF p.m_audswrThread.pc = "head" /\ ~p.m_quitPlay /\ p.m_audfrmQ = 0
        THEN Did(Goto("empty"), <<>>)
        ELSE IF p.m_audswrThread.pc = "empty"
        THEN IF p.auddec.phase = "eof" THEN Did(Goto("done"), <<>>)
             ELSE Did(Goto("head"), <<>>)
        ELSE SwrThreadStep(p, "ok")

\* RenderThreadProc, lines 1266-1318, one turn. shows: the frame at the
\* head of the video frame queue is due (m_playPos >= mts). With audio the
\* play position follows the audio device, which is not modelled.
RenderThreadStep(p, shows) ==
    LET noAudio == ~p.streams.audio
        playPos == IF p.streams.audio THEN p.m_playPos
                   ELSE IF p.m_isAfterSeek THEN p.m_seekToMts
                   ELSE PlayClock(p)
        video == p.streams.video /\ p.m_vidfrmQ > 0
        first == video /\ p.m_isAfterSeek
    IN  IF p.m_quitPlay
        THEN Did([p EXCEPT !.m_renderThread = [@ EXCEPT !.pc = "done"]], <<>>)
        ELSE IF ~p.m_isPlaying THEN Did(p, <<>>)
        ELSE Did([p EXCEPT
                     !.m_playPos = playPos,
                     !.m_runStartTp = IF first /\ noAudio THEN p.now ELSE @,
                     !.m_posOffset = IF first /\ noAudio THEN p.m_seekToMts ELSE @,
                     !.m_isAfterSeek = IF first THEN FALSE ELSE @,
                     !.m_vidfrmQ = IF video /\ shows THEN @ - 1 ELSE @],
                 <<>>)

\* A scrubbing render thread whose inner loop waits for a frame to come
\* rather than ending on an empty queue.
RenderThreadStep_SeekAsync_WaitsForFrame(p) ==
    LET th == p.m_renderThread
    IN  IF th.pc = "head"
        THEN IF p.m_quitPlay
             THEN Did([p EXCEPT !.m_renderThread = [@ EXCEPT !.pc = "done"]], <<>>)
             ELSE Did([p EXCEPT !.m_renderThread = [@ EXCEPT !.pc = "drain"]], <<>>)
        ELSE IF p.m_vidfrmQ > 0
        THEN Did([p EXCEPT !.m_vidfrmQ = @ - 1,
                           !.m_renderThread = [@ EXCEPT !.pc = "head"]], <<>>)
        ELSE Did(p, <<>>)

\* RenderThreadProc_SeekAsync, lines 1320-1460: at the loop head, and one
\* turn of the loop that empties the video frame queue (1336-1394).
RenderThreadStep_SeekAsync(p) ==
    LET th == p.m_renderThread
    IN  IF th.pc = "head"
        THEN IF p.m_quitPlay
             THEN Did([p EXCEPT !.m_renderThread = [@ EXCEPT !.pc = "done"]], <<>>)
             ELSE Did([p EXCEPT !.m_renderThread = [@ EXCEPT !.pc = "drain"]], <<>>)
        ELSE IF p.m_vidfrmQ > 0
        THEN Did([p EXCEPT !.m_vidfrmQ = @ - 1], <<>>)
        ELSE Did([p EXCEPT !.m_renderThread = [@ EXCEPT !.pc = "head"]], <<>>)

(***************************************************************************)
(* The steps of the player: a public call up to its return or up to its    *)
(* wait, the rest of a call that waited, one turn of a thread, the audio   *)
(* device taking a frame, the clock.                                       *)
(***************************************************************************)
\* The clock runs from 0 to MaxNow.
MaxNow == 3

\* A behaviour has up to MaxWaits public calls that wait for the threads
\* (hist.waits counts them).
MaxWaits == 2

\* A public call, which takes m_ctlLock first (api.op = "none": no other
\* call is in progress), up to its return or up to its wait.
PlayerCall(op, pos, r) ==
    /\ r.p.api.op # "none" => hist.waits < MaxWaits
    /\ SetPlayer([r.p EXCEPT !.hist = [@ EXCEPT !.waits =
                                  IF r.p.api.op # "none" THEN hist.waits + 1
                                  ELSE hist.waits]])
    /\ call' = [op |-> IF r.p.api.op = "none" THEN op ELSE "WaitAllThreadsQuit",
                pos |-> pos, ret |-> r.ret, out |-> r.ev]
    /\ UNCHANGED notEngineVars

DoPlay ==
    /\ api.op = "none"
    /\ \E r \in {Play(Player)} : PlayerCall("Play", 0, r)

DoPause ==
    /\ api.op = "none"
    /\ \E r \in {Pause(Player)} : PlayerCall("Pause", 0, r)

DoReset ==
    /\ api.op = "none"
    /\ \E r \in {Reset(Player)} : PlayerCall("Reset", 0, r)

DoSeek(pos, seekToI) ==
    /\ api.op = "none"
    /\ \E r \in {Seek(Player, pos, seekToI)} : PlayerCall("Seek", pos, r)

DoSeekAsync(pos) ==
    /\ api.op = "none"
    /\ \E r \in {SeekAsync(Player, pos)} : PlayerCall("SeekAsync", pos, r)

DoQuitSeekAsync ==
    /\ api.op = "none"
    /\ \E r \in {QuitSeekAsync(Player)} : PlayerCall("QuitSeekAsync", 0, r)

DoClosePlayer ==
    /\ api.op = "none"
    /\ \E r \in {BeginWait(Player, "Close", -1, FALSE)} : PlayerCall("Close", 0, r)

\* Every join of WaitAllThreadsQuit returns: no thread is in its procedure.
AllJoined(p) == \A th \in ThreadsOf(p) : ~Running(th)

\* The position the waiting call seeks the demuxer to.
SeekTarget(p) ==
    IF p.api.op = "Seek" THEN p.api.pos
    ELSE IF p.api.op = "QuitSeekAsync" THEN p.m_asyncSeekPos
    ELSE 0

\* The call that waits goes on after WaitAllThreadsQuit. fferr: what
\* avformat_seek_file returns; vid, aud: the key frames at or before the
\* target the demuxer then stands at.
AfterWait(fferr, vid, aud) ==
    /\ api.op # "none"
    /\ AllJoined(Player)
    /\ IF api.op \in {"Seek", "QuitSeekAsync"} /\ fferr = 0
       THEN vid <= Max(SeekTarget(Player), 0) /\ aud <= Max(SeekTarget(Player), 0)
       ELSE vid = 0 /\ aud = 0
    /\ api.op \in {"SeekAsync", "Close"} => fferr = 0
    /\ \E r \in {CASE api.op = "Reset" -> Reset_AfterWait(Player, fferr)
                   [] api.op = "Seek" -> Seek_AfterWait(Player, fferr, vid, aud)
                   [] api.op = "SeekAsync" -> SeekAsync_AfterWait(Player)
                   [] api.op = "QuitSeekAsync" ->
                          QuitSeekAsync_AfterWait(Player, fferr, vid, aud)
                   [] OTHER -> Close_AfterWait(Player)} :
           /\ SetPlayer([r.p EXCEPT !.hist = [@ EXCEPT !.waits = hist.waits]])
           /\ call' = [op |-> api.op, pos |-> api.pos, ret |-> r.ret, out |-> r.ev]
    /\ UNCHANGED notEngineVars

\* A thread is in the procedure proc.
InProc(th, proc) == Running(th) /\ th.proc = proc

\* One turn of a thread. What the turn did (a failed call, a seek of the
\* demuxer) names its thread where a property asks for it.
ThreadTurn(r) ==
    /\ SetPlayer(r.p)
    /\ call' = [op |-> "thread", pos |-> 0, ret |-> TRUE, out |-> r.ev]
    /\ UNCHANGED notEngineVars

DemuxThread(read) ==
    /\ InProc(m_demuxThread, "DemuxThreadProc")
    /\ demux.avpktLoaded => read = demux.stream
    /\ \E r \in {DemuxThreadStep(Player, read)} :
           /\ r.p.m_audpktQ <= AudPktQCap
           /\ ThreadTurn(r)

DemuxThread_SeekAsync(read, fferr, vid) ==
    /\ InProc(m_demuxThread, "DemuxThreadProc_SeekAsync")
    /\ IF Retargets(Player) /\ ~m_quitPlay
       THEN vid <= m_asyncSeekPos /\ (fferr < 0 => vid = 0)
       ELSE vid = 0 /\ fferr = 0
    /\ \E r \in {DemuxThreadStep_SeekAsync(Player, read, fferr, vid)} :
           /\ r.p.m_audpktQ <= AudPktQCap
           /\ ThreadTurn(r)

VideoDecodeThread(fferr) ==
    /\ InProc(m_viddecThread, "VideoDecodeThreadProc")
    /\ \E r \in {DecodeThreadStep(Player, "vid", fferr)} : ThreadTurn(r)

AudioDecodeThread(fferr) ==
    /\ InProc(m_auddecThread, "AudioDecodeThreadProc")
    /\ \E r \in {DecodeThreadStep(Player, "aud", fferr)} : ThreadTurn(r)

SwrThread(fferr) ==
    /\ InProc(m_audswrThread, "SwrThreadProc")
    /\ \E r \in {SwrThreadStep(Player, fferr)} : ThreadTurn(r)

VideoDecodeThread_TwoReads ==
    /\ InProc(m_viddecThread, "VideoDecodeThreadProc")
    /\ \E r \in {DecodeThreadStep_TwoReads(Player, "vid")} : ThreadTurn(r)

AudioDecodeThread_TwoReads ==
    /\ InProc(m_auddecThread, "AudioDecodeThreadProc")
    /\ \E r \in {DecodeThreadStep_TwoReads(Player, "aud")} : ThreadTurn(r)

SwrThread_TwoReads ==
    /\ InProc(m_audswrThread, "SwrThreadProc")
    /\ \E r \in {SwrThreadStep_TwoReads(Player)} : ThreadTurn(r)

RenderThread(shows) ==
    /\ InProc(m_renderThread, "RenderThreadProc")
    /\ shows => ~m_quitPlay /\ m_isPlaying /\ streams.video /\ m_vidfrmQ > 0
    /\ \E r \in {RenderThreadStep(Player, shows)} : ThreadTurn(r)

RenderThread_SeekAsync ==
    /\ InProc(m_renderThread, "RenderThreadProc_SeekAsync")
    /\ \E r \in {RenderThreadStep_SeekAsync(Player)} : ThreadTurn(r)

\* AudioByteStream::Read on the audio device's thread, while the player is
\* opened: a resampled frame is taken.
AudioRead ==
    /\ m_swrfrmQ > 0
    /\ SetPlayer([Player EXCEPT !.m_swrfrmQ = @ - 1])
    /\ call' = [op |-> "thread", pos |-> 0, ret |-> TRUE, out |-> <<>>]
    /\ UNCHANGED notEngineVars

\* A millisecond passes.
Tick ==
    /\ now < MaxNow
    /\ SetPlayer([Player EXCEPT !.now = @ + 1])
    /\ call' = [op |-> "thread", pos |-> 0, ret |-> TRUE, out |-> <<>>]
    /\ UNCHANGED notEngineVars

Mts == 0..MaxMts

\* The threads of the pipeline, with no failure of a codec or of the
\* resampler.
NextThreads ==
    \/ \E read \in PacketStreams(streams) \cup {"eof"} : DemuxThread(read)
    \/ \E read \in PacketStreams(streams) \cup {"eof"}, fferr \in {-1, 0}, vid \in Mts :
           DemuxThread_SeekAsync(read, fferr, vid)
    \/ VideoDecodeThread("ok")
    \/ AudioDecodeThread("ok")
    \/ SwrThread("ok")
    \/ \E shows \in BOOLEAN : RenderThread(shows)
    \/ RenderThread_SeekAsync
    \/ AudioRead

\* The clock of a player without audio: Play and Pause, the render thread
\* of the threads Play starts, and the time.
InitClock == InitPlayer /\ streams.video /\ ~streams.audio

NextClock ==
    \/ DoPlay
    \/ DoPause
    \/ \E shows \in BOOLEAN : RenderThread(shows)
    \/ Tick

SpecClock == InitClock /\ [][NextClock]_vars

\* Playing after one Seek of a stopped player to the position MaxMts, the
\* key frame of every stream at 0: the demuxer, the two decode threads and
\* the render thread.
NextAfterSeek ==
    \/ DoPlay
    \/ \E seekToI \in BOOLEAN : hist.pos = -1 /\ ~m_isPlaying /\ DoSeek(MaxMts, seekToI)
    \/ AfterWait(0, 0, 0)
    \/ \E read \in PacketStreams(streams) : DemuxThread(read)
    \/ VideoDecodeThread("ok")
    \/ AudioDecodeThread("ok")
    \/ \E shows \in BOOLEAN : RenderThread(shows)

SpecAfterSeek == InitPlayer /\ [][NextAfterSeek]_vars

\* The clock of a player without audio up to one Seek to the position 1
\* with seekToI = false and after it: Play, Pause before the seek, the
\* threads Play and Seek start, and the time.
NextSeekClock ==
    \/ DoPlay
    \/ hist.pos = -1 /\ DoPause
    \/ hist.pos = -1 /\ DoSeek(1, FALSE)
    \/ AfterWait(0, 0, 0)
    \/ DemuxThread("video")
    \/ VideoDecodeThread("ok")
    \/ \E shows \in BOOLEAN : RenderThread(shows)
    \/ Tick

SpecSeekClock == InitClock /\ [][NextSeekClock]_vars

\* A source with one stream: video only, or audio only.
InitOneStream == InitPlayer /\ ~(streams.video /\ streams.audio)

\* Playing with codecs that can fail.
NextDecodeErr ==
    \/ DoPlay
    \/ \E read \in PacketStreams(streams) \cup {"eof"} : DemuxThread(read)
    \/ \E fferr \in {"ok", "error"} : VideoDecodeThread(fferr)
    \/ \E fferr \in {"ok", "error"} : AudioDecodeThread(fferr)
    \/ SwrThread("ok")
    \/ \E shows \in BOOLEAN : RenderThread(shows)
    \/ AudioRead

SpecDecodeErr == InitOneStream /\ [][NextDecodeErr]_vars

\* Playing to the end of the source: Play, the threads it starts, the
\* audio device that reads, and no other call. Each thread that is in its
\* procedure is scheduled again and again; while the player plays, a frame
\* that waits in the video frame queue becomes due and the audio device
\* comes back for data.
NextEof ==
    \/ DoPlay
    \/ \E read \in PacketStreams(streams) \cup {"eof"} : DemuxThread(read)
    \/ VideoDecodeThread_TwoReads
    \/ AudioDecodeThread_TwoReads
    \/ SwrThread_TwoReads
    \/ \E shows \in BOOLEAN : RenderThread(shows)
    \/ AudioRead

FairEof ==
    /\ WF_vars(\E read \in PacketStreams(streams) \cup {"eof"} : DemuxThread(read))
    /\ WF_vars(VideoDecodeThread_TwoReads)
    /\ WF_vars(AudioDecodeThread_TwoReads)
    /\ WF_vars(SwrThread_TwoReads)
    /\ WF_vars(RenderThread(TRUE))
    /\ WF_vars(AudioRead)

SpecEof == InitOneStream /\ [][NextEof]_vars /\ FairEof

\* Scrubbing under the other calls: once SeekAsync has begun the
\* scrubbing, Reset, Seek and Close can be called, and SeekAsync again;
\* no seek of the file fails.
NextScrubCalls ==
    \/ DoPlay
    \/ DoPause
    \/ DoSeekAsync(1)
    \/ m_isSeeking /\ DoReset
    \/ m_isSeeking /\ DoSeek(1, FALSE)
    \/ m_isSeeking /\ DoClosePlayer
    \/ AfterWait(0, 0, 0)
    \/ NextThreads

SpecScrubCalls == InitOneStream /\ [][NextScrubCalls]_vars

\* The control calls against the running pipeline of a source with one
\* stream: playing, and one of Seek, Reset, Close and a scrubbing session
\* (SeekAsync, QuitSeekAsync), with a demuxer whose seek can fail.
NextCtl ==
    \/ DoPlay
    \/ hist.waits = 0 /\ DoReset
    \/ hist.waits = 0 /\ DoSeek(1, FALSE)
    \/ DoSeekAsync(1)
    \/ DoQuitSeekAsync
    \/ hist.waits = 0 /\ DoClosePlayer
    \/ \E fferr \in {-1, 0} : AfterWait(fferr, 0, 0)
    \/ NextThreads

SpecCtl == InitOneStream /\ [][NextCtl]_vars

\* A scrubbing session: SeekAsync to one target and another, QuitSeekAsync
\* with a seek that succeeds or fails, Play at any point and Pause during
\* the session.
NextScrub ==
    \/ DoPlay
    \/ m_isSeeking /\ DoPause
    \/ \E pos \in {0, 1} : DoSeekAsync(pos)
    \/ DoQuitSeekAsync
    \/ \E fferr \in {-1, 0} : AfterWait(fferr, 0, 0)
    \/ NextThreads

SpecScrub == InitOneStream /\ [][NextScrub]_vars

\* Cancellation: one call that waits for the threads (Seek, Reset, Close or
\* the SeekAsync that begins scrubbing) at any point of playing, and the
\* QuitSeekAsync that ends scrubbing.
NextQuit ==
    \/ hist.waits = 0 /\ DoPlay
    \/ hist.waits = 0 /\ DoSeek(1, FALSE)
    \/ hist.waits = 0 /\ DoReset
    \/ hist.waits = 0 /\ DoClosePlayer
    \/ hist.waits = 0 /\ ~m_isPlaying /\ DoSeekAsync(1)
    \/ DoQuitSeekAsync
    \/ AfterWait(0, 0, 0)
    \/ NextThreads

\* Each thread that is in its procedure is scheduled again and again, and
\* so is the thread of the call once its joins can return. Nothing is asked
\* of the audio device.
FairQuit ==
    /\ WF_vars(AfterWait(0, 0, 0))
    /\ WF_vars(\E read \in PacketStreams(streams) \cup {"eof"} : DemuxThread(read))
    /\ WF_vars(\E read \in PacketStreams(streams) \cup {"eof"},
                  fferr \in {-1, 0}, vid \in Mts :
                   DemuxThread_SeekAsync(read, fferr, vid))
    /\ WF_vars(VideoDecodeThread("ok"))
    /\ WF_vars(AudioDecodeThread("ok"))
    /\ WF_vars(SwrThread("ok"))
    /\ WF_vars(\E shows \in BOOLEAN : RenderThread(shows))
    /\ WF_vars(RenderThread_SeekAsync)

SpecQuit == InitOneStream /\ [][NextQuit]_vars /\ FairQuit

(***************************************************************************)
(* Part 6. The frame cache of RenderThreadProc_SeekAsync, lines 1320-1460. *)
(* A frame is its time stamp; the cache is the list vidMatCache; the       *)
(* cursor cacheIter is the time stamp of the element it is at. A turn of   *)
(* the outer loop is a step at its head, a step for each frame the inner   *)
(* loop takes from the video frame queue, and a step for what follows the  *)
(* inner loop.                                                             *)
(***************************************************************************)
\* abs(a - b)
Dist(a, b) == IF a < b THEN b - a ELSE a - b

\* abs(x->time_stamp - vidSeekTimestamp) > abs(y->time_stamp -
\* vidSeekTimestamp), line 1373. With currSeekPos = INT64_MIN the position
\* is before every frame.
Farther(x, y, pos) == IF pos = -1 THEN x > y ELSE Dist(x, pos) > Dist(y, pos)

\* A shrink that discards from the back only.
ShrinkCache_FromBack(s, pos, size) == SubSeq(s, 1, Min(Len(s), size))

\* The shrink loop, lines 1372-1384.
RECURSIVE ShrinkCache(_, _, _)
ShrinkCache(s, pos, size) ==
    IF Len(s) <= size THEN s
    ELSE IF Farther(s[1], s[Len(s)], pos) THEN ShrinkCache(Tail(s), pos, size)
    ELSE ShrinkCache(SubSeq(s, 1, Len(s) - 1), pos, size)

\* One turn of the inner loop, lines 1338-1393, on a frame of the queue.
\* prevCachedTimestamp starts a turn of the outer loop at
\* numeric_limits<double>::min(), the smallest positive double: 0 here.
SkipsFrame_PrevOnly(c, timestamp) ==
    Dist(timestamp, c.prevCachedTimestamp) < c.k.interval

SkipsFrame(c, timestamp) ==
    \/ Dist(timestamp, c.prevCachedTimestamp) < c.k.interval
    \/ \E i \in DOMAIN c.vidMatCache :
           Dist(c.vidMatCache[i], timestamp) < c.k.interval

CacheFrame(c, timestamp) ==
    LET pushed == Append(c.vidMatCache, timestamp)
    IN  IF SkipsFrame(c, timestamp) THEN c
        ELSE [c EXCEPT
                 !.vidMatCache =
                     IF Len(pushed) > c.k.maxSize
                     THEN ShrinkCache(pushed, c.currSeekPos, c.k.shrinkSize)
                     ELSE pushed,
                 !.prevCachedTimestamp = timestamp,
                 !.cacheUpdated = TRUE]

\* vidMatCache.sort by time stamp, line 1398: the i-th entry of the sorted
\* list is the time stamp with fewer than i entries before it and at least
\* i entries up to it.
SortCache(s) ==
    [i \in 1..Len(s) |->
        CHOOSE x \in Range(s) :
            /\ Cardinality({j \in DOMAIN s : s[j] < x}) < i
            /\ i <= Cardinality({j \in DOMAIN s : s[j] <= x})]

\* The index of the element the cursor is at; Len(s) + 1 for end().
CursorIndex(s, it) ==
    IF \E i \in DOMAIN s : s[i] = it THEN CHOOSE i \in DOMAIN s : s[i] = it
    ELSE Len(s) + 1

\* The loops at 1420-1430 and 1433-1442, from the element at index i.
RECURSIVE SearchForward(_, _, _)
SearchForward(s, i, pos) ==
    IF i > Len(s) THEN i
    ELSE IF i + 1 > Len(s) \/ Dist(s[i], pos) < Dist(s[i + 1], pos) THEN i
    ELSE SearchForward(s, i + 1, pos)

RECURSIVE SearchBackward(_, _, _)
SearchBackward(s, i, pos) ==
    IF i = 1 THEN i
    ELSE IF Dist(s[i], pos) < Dist(s[i - 1], pos) THEN i
    ELSE SearchBackward(s, i - 1, pos)

\* A search that only goes forward from the cursor.
FindClosest_ForwardOnly(s, it, pos) == SearchForward(s, CursorIndex(s, it), pos)

\* The search of the frame closest to the position, lines 1405-1444: the
\* index the cursor ends at. The cursor is never at end() of a list that
\* is not empty when the search begins.
FindClosest(s, it, pos) ==
    LET i == CursorIndex(s, it)
        backward == /\ i # 1
                    /\ i <= Len(s)
                    /\ Dist(s[i - 1], pos) < Dist(s[i], pos)
    IN  IF backward THEN SearchBackward(s, i - 1, pos)
        ELSE SearchForward(s, i, pos)

\* The head of the outer loop, lines 1331-1335. asyncSeekPos: what the
\* atomic m_asyncSeekPos holds.
CacheTurnBegins(c, asyncSeekPos) ==
    [c EXCEPT !.currSeekPos = asyncSeekPos, !.cacheUpdated = FALSE,
              !.prevCachedTimestamp = 0, !.pc = "drain"]

\* What follows the inner loop, lines 1395-1454: the sort, the search and
\* the frame published in m_vidMat.
CacheTurnEnds(c) ==
    LET sorted == IF c.cacheUpdated THEN SortCache(c.vidMatCache)
                  ELSE c.vidMatCache
        it0 == IF ~c.cacheUpdated THEN c.cacheIter
               ELSE IF sorted = <<>> THEN -1 ELSE sorted[1]
        searches == /\ c.currSeekPos # -1
                    /\ (c.currSeekPos # c.prevSeekPos \/ c.cacheUpdated)
        i == FindClosest(sorted, it0, c.currSeekPos)
        it1 == IF ~searches THEN it0
               ELSE IF i > Len(sorted) THEN -1 ELSE sorted[i]
    IN  [c EXCEPT !.vidMatCache = sorted,
                  !.cacheIter = it1,
                  !.m_vidMat = IF searches /\ it1 # -1 THEN it1 ELSE @,
                  !.prevSeekPos = IF searches THEN c.currSeekPos ELSE @,
                  !.pc = "head"]

\* The scaled cache: its sizes, the interval under which two frames count
\* as one, the last time stamp and the positions SeekAsync is called with.
MaxCacheSize == 4
CacheShrinkSize == 3
CacheInterval == 2
MaxCacheTs == 9
CacheTargets == {0, 3, MaxCacheTs}

\* The feed of FeedFrames frames, one every spacing * 100 ms from 0 on,
\* the position held at FeedTarget (4.0 s).
FeedFrames == 80
FeedTarget == 40
MaxSpacing == 5

\* A step of the scrubbing render thread or of SeekAsync on the cache.
CacheStep(c, asyncSeekPos) ==
    /\ rc' = c
    /\ m_asyncSeekPos' = asyncSeekPos
    /\ call' = [op |-> "RenderThreadProc_SeekAsync", pos |-> 0, ret |-> TRUE,
                out |-> <<>>]
    /\ UNCHANGED <<m_eventList, mut, trackVars, projVars, playerVars,
                   m_avfmtCtx, m_quitPlay, m_isPlaying, m_isAfterSeek,
                   m_isSeekToI, m_seekToMts, m_isSeeking,
                   m_isPlayingBeforeSeek, m_errMessage, threadVars, clockVars,
                   api, pts, avfrm, hist, au, ovw>>

RenderCacheHead ==
    /\ rc.pc = "head"
    /\ CacheStep(CacheTurnBegins(rc, m_asyncSeekPos), m_asyncSeekPos)

\* A frame of any time stamp comes out of the queue.
RenderCacheFrame(timestamp) ==
    /\ rc.pc = "drain"
    /\ rc.spacing = 0
    /\ CacheStep(CacheFrame(rc, timestamp), m_asyncSeekPos)

\* The next frame of the feed comes out of the queue, the position being
\* held at FeedTarget.
RenderCacheFeed ==
    /\ rc.pc = "drain"
    /\ rc.spacing > 0
    /\ rc.fed < FeedFrames
    /\ rc.currSeekPos = FeedTarget
    /\ CacheStep([CacheFrame(rc, rc.fed * rc.spacing) EXCEPT !.fed = @ + 1],
                 m_asyncSeekPos)

\* The queue is found empty.
RenderCacheFinish ==
    /\ rc.pc = "drain"
    /\ CacheStep(CacheTurnEnds(rc), m_asyncSeekPos)

\* SeekAsync while scrubbing, line 324: m_asyncSeekPos = pos.
SeekAsyncTarget(pos) ==
    /\ pos # m_asyncSeekPos
    /\ pos = FeedTarget <=> rc.spacing > 0
    /\ CacheStep(rc, pos)

\* The cache under frames of any time stamps in any order and positions
\* that move, with scaled sizes; and under the feed, with the sizes of the
\* code.
InitCache ==
    /\ m_eventList = <<>>
    /\ call = NoCall
    /\ mut = Idle
    /\ InitTrackWith([num |-> 1000, den |-> 1])
    /\ InitProject
    /\ InitPlayerWith(TRUE, FALSE)
    /\ InitCtl
    /\ au = AudioStart(FALSE)
    /\ ovw = OverviewStart(FALSE, 0)
    /\ rc \in {CacheStart(CacheInterval, MaxCacheSize, CacheShrinkSize, 0)}
              \cup {CacheStart(MIN_CACHE_FRAME_INTERVAL, MAX_CACHE_SIZE,
                               CACHE_SHRINK_SIZE, spacing) :
                        spacing \in 1..MaxSpacing}

NextCache ==
    \/ RenderCacheHead
    \/ \E timestamp \in 0..MaxCacheTs : RenderCacheFrame(timestamp)
    \/ RenderCacheFeed
    \/ RenderCacheFinish
    \/ \E pos \in CacheTargets \cup {FeedTarget} : SeekAsyncTarget(pos)

SpecCache == InitCache /\ [][NextCache]_vars

(***************************************************************************)
(* Part 7. The owners of the audio frames, src/MediaPlayer_FFImpl.cpp:     *)
(* SwrThreadProc (1201-1264), AudioByteStream::Read and Reset (1705-1787), *)
(* FlushAllQueues (1661-1678) and the calls that flush. The stage threads  *)
(* are joined before a call flushes; the audio device calls Read on its    *)
(* own thread whenever it is resumed. The audio renderer is not part of    *)
(* the sources: Pause and CloseDevice are taken to return once no Read is  *)
(* in progress, with none beginning before Resume.                         *)
(***************************************************************************)
\* The frames a behaviour allocates, and the room of the two queues.
MaxFrames == 3
AudioQMax == 2

\* av_frame_free on a frame: releasing a frame twice is a fault.
FreeFrame(a, frm) ==
    IF frm \in a.freed THEN [a EXCEPT !.fault = "released twice"]
    ELSE [a EXCEPT !.freed = @ \cup {frm}]

\* A read of the data of a frame.
UseFrame(a, frm) ==
    IF frm \in a.freed THEN [a EXCEPT !.fault = "used after release"] ELSE a

RECURSIVE FreeFrames(_, _)
FreeFrames(a, q) ==
    IF q = <<>> THEN a ELSE FreeFrames(FreeFrame(a, Head(q)), Tail(q))

\* FlushAllQueues, lines 1661-1678, without the locks of the queues.
FlushAudioQueues(a) ==
    [FreeFrames(a, a.m_audfrmQ \o a.m_swrfrmQ) EXCEPT
        !.m_audfrmQ = <<>>, !.m_swrfrmQ = <<>>]

\* AudioByteStream::Reset, lines 1777-1787
ByteStreamReset(a) ==
    IF a.m_unconsumedAudfrm # 0
    THEN [FreeFrame(a, a.m_unconsumedAudfrm) EXCEPT !.m_unconsumedAudfrm = 0]
    ELSE a

\* One turn of SwrThreadProc that finds a frame and room, lines 1206-1253:
\* the frame itself goes on when m_swrPassThrough is set, else a new frame
\* does and the source frame is released.
SwrTurn(a) ==
    LET srcfrm == Head(a.m_audfrmQ)
        dstfrm == IF a.m_swrPassThrough THEN srcfrm ELSE a.made + 1
        a1 == [UseFrame(a, srcfrm) EXCEPT
                  !.made = IF a.m_swrPassThrough THEN @ ELSE @ + 1,
                  !.m_audfrmQ = Tail(@),
                  !.m_swrfrmQ = Append(@, dstfrm)]
    IN  IF srcfrm # dstfrm THEN FreeFrame(a1, srcfrm) ELSE a1

\* AudioByteStream::Read, lines 1705-1775, in four steps. The frame left
\* from the call before (1708-1723): done tells whether this call takes
\* the rest of it.
ReadUnconsumed(a, done) ==
    IF a.m_unconsumedAudfrm = 0 THEN [a EXCEPT !.read = [@ EXCEPT !.pc = "front"]]
    ELSE LET a1 == UseFrame(a, a.m_unconsumedAudfrm)
         IN  IF done
             THEN [FreeFrame(a1, a.m_unconsumedAudfrm) EXCEPT
                      !.m_unconsumedAudfrm = 0,
                      !.read = [@ EXCEPT !.pc = "front"]]
             ELSE [a1 EXCEPT !.read = [@ EXCEPT !.pc = "idle"]]

\* The test of the loop (1726), then m_swrfrmQ.empty() and
\* m_swrfrmQ.front(), lines 1730-1737, with no lock: full tells whether the
\* buffer of the device is filled.
ReadFront(a, full) ==
    IF full \/ a.m_swrfrmQ = <<>> THEN [a EXCEPT !.read = [pc |-> "idle", audfrm |-> 0]]
    ELSE [a EXCEPT !.read = [pc |-> "pop", audfrm |-> Head(a.m_swrfrmQ)]]

\* m_swrfrmQ.pop_front() under the lock of the queue, lines 1738-1739.
ReadPop(a) ==
    IF a.m_swrfrmQ = <<>>
    THEN [a EXCEPT !.fault = "pop_front of an empty queue"]
    ELSE [a EXCEPT !.m_swrfrmQ = Tail(@), !.read = [@ EXCEPT !.pc = "copy"]]

\* The copy out of the frame, lines 1742-1769: whole tells whether all of
\* it fits; if not the byte stream keeps the frame and the call returns.
ReadCopy(a, whole) ==
    LET a1 == UseFrame(a, a.read.audfrm)
    IN  IF whole
        THEN [FreeFrame(a1, a.read.audfrm) EXCEPT
                 !.read = [pc |-> "front", audfrm |-> 0]]
        ELSE [a1 EXCEPT !.m_unconsumedAudfrm = a.read.audfrm,
                        !.read = [pc |-> "idle", audfrm |-> 0]]

\* A step on the audio frames.
AudioStep(a, op) ==
    /\ au.fault = ""
    /\ au' = a
    /\ call' = [op |-> op, pos |-> 0, ret |-> TRUE, out |-> <<>>]
    /\ UNCHANGED <<m_eventList, mut, trackVars, projVars, playerVars, ctlVars, rc, ovw>>

\* Play, lines 132-169: the threads are started if there are none, the
\* device is resumed.
AudioPlay ==
    /\ au.ctl.op = "none" /\ ~au.isPlaying /\ au.device # "closed"
    /\ AudioStep([au EXCEPT !.threads = TRUE, !.device = "running",
                            !.isPlaying = TRUE], "Play")

\* The audio decode thread pushes a frame, lines 1138-1151.
AudioDecodePushes ==
    /\ au.threads /\ au.made < MaxFrames /\ Len(au.m_audfrmQ) < AudioQMax
    /\ AudioStep([au EXCEPT !.made = @ + 1, !.m_audfrmQ = Append(@, au.made + 1)],
                 "AudioDecodeThreadProc")

SwrThreadTurn ==
    /\ au.threads /\ au.m_audfrmQ # <<>> /\ Len(au.m_swrfrmQ) < AudioQMax
    /\ ~au.m_swrPassThrough => au.made < MaxFrames
    /\ AudioStep(SwrTurn(au), "SwrThreadProc")

\* The device calls Read while it is resumed.
AudioReadBegins(done) ==
    /\ au.device = "running" /\ au.read.pc = "idle"
    /\ done => au.m_unconsumedAudfrm # 0
    /\ AudioStep(ReadUnconsumed(au, done), "AudioByteStream::Read")

AudioReadFront(full) ==
    /\ au.read.pc = "front"
    /\ AudioStep(ReadFront(au, full), "AudioByteStream::Read")

AudioReadPop ==
    /\ au.read.pc = "pop"
    /\ AudioStep(ReadPop(au), "AudioByteStream::Read")

AudioReadCopy(whole) ==
    /\ au.read.pc = "copy"
    /\ AudioStep(ReadCopy(au, whole), "AudioByteStream::Read")

\* Seek, Reset and Close up to the end of WaitAllThreadsQuit: Seek (242)
\* and Reset (197) pause the device first, Close (64-68) does not.
AudioCallBegins(op) ==
    /\ au.ctl.op = "none" /\ au.device # "closed"
    /\ op # "Close" => au.read.pc = "idle"
    /\ AudioStep([au EXCEPT
                     !.ctl = [op |-> op, pc |-> "flush", isPlaying |-> au.isPlaying],
                     !.device = IF op = "Close" THEN @ ELSE "paused",
                     !.isPlaying = FALSE,
                     !.threads = FALSE], op)

\* FlushAllQueues in Seek (245), Reset (200) and Close (68).
AudioCallFlushes ==
    /\ au.ctl.pc = "flush"
    /\ AudioStep([FlushAudioQueues(au) EXCEPT !.ctl = [@ EXCEPT !.pc = "sink"]],
                 "FlushAllQueues")

\* m_audrnd->Flush() in Seek and Reset, m_audrnd->CloseDevice() in Close
\* (71), which ends the calls of Read.
AudioCallSink ==
    /\ au.ctl.pc = "sink"
    /\ au.ctl.op = "Close" => au.read.pc = "idle"
    /\ AudioStep([au EXCEPT !.ctl = [@ EXCEPT !.pc = "reset"],
                            !.device = IF au.ctl.op = "Close" THEN "closed" ELSE @],
                 au.ctl.op)

\* m_audByteStream.Reset() and the rest of the call: Seek starts the
\* threads again and resumes the device if the player was playing
\* (275-280).
AudioCallEnds ==
    /\ au.ctl.pc = "reset"
    /\ LET again == au.ctl.op = "Seek" /\ au.ctl.isPlaying
       IN  AudioStep([ByteStreamReset(au) EXCEPT
                         !.ctl = [op |-> "none", pc |-> "none", isPlaying |-> FALSE],
                         !.threads = again,
                         !.isPlaying = again,
                         !.device = IF again THEN "running" ELSE @],
                     au.ctl.op)

InitOwner ==
    /\ m_eventList = <<>>
    /\ call = NoCall
    /\ mut = Idle
    /\ InitTrackWith([num |-> 1000, den |-> 1])
    /\ InitProject
    /\ InitPlayerWith(FALSE, TRUE)
    /\ InitCtl
    /\ rc = CacheStart(MIN_CACHE_FRAME_INTERVAL, MAX_CACHE_SIZE, CACHE_SHRINK_SIZE, 0)
    /\ \E passThrough \in BOOLEAN : au = AudioStart(passThrough)
    /\ ovw = OverviewStart(FALSE, 0)

NextOwner ==
    \/ AudioPlay
    \/ AudioDecodePushes
    \/ SwrThreadTurn
    \/ \E done \in BOOLEAN : AudioReadBegins(done)
    \/ \E full \in BOOLEAN : AudioReadFront(full)
    \/ AudioReadPop
    \/ \E whole \in BOOLEAN : AudioReadCopy(whole)
    \/ \E op \in {"Seek", "Reset", "Close"} : AudioCallBegins(op)
    \/ AudioCallFlushes
    \/ AudioCallSink
    \/ AudioCallEnds

SpecOwner == InitOwner /\ [][NextOwner]_vars

(***************************************************************************)
(* Part 8. The media overview, src/MediaOverview.cpp: Open (30-46),        *)
(* BuildSnapshots and StartAllThreads (532-552), DemuxThreadProc (617-720),*)
(* VideoDecodeThreadProc (722-809) and GenerateSsThreadProc (811-879).     *)
(* A snapshot is [ssFrmPts, sameFrame, sameAsIndex, img]; its index is its *)
(* place in m_snapshots less one, -1 stands for INT64_MIN, and the seek    *)
(* target of the snapshot of index i is the time i. Close is not called,   *)
(* so m_quitScan stays false once the threads are started.                 *)
(***************************************************************************)
\* The snapshots asked for, and the room of the packet and frame queues
\* (m_vidpktQMaxSize is 8 and m_vidfrmQMaxSize is 4 in the source).
MaxSs == 3
OverviewQMax == 2

NoSnapshot == [ssFrmPts |-> -1, sameFrame |-> FALSE, sameAsIndex |-> 0, img |-> FALSE]

\* find_if(..., ssFrmPts == pts): the place of the first such snapshot, or
\* one past the end.
FindSnapshot(s, pktPts) ==
    IF \E i \in DOMAIN s : s[i].ssFrmPts = pktPts
    THEN CHOOSE i \in DOMAIN s :
            /\ s[i].ssFrmPts = pktPts
            /\ \A j \in 1..(i - 1) : s[j].ssFrmPts # pktPts
    ELSE Len(s) + 1

\* The snapshot at place i is the same frame as the one before it
\* (lines 662-663 and 861-862).
MarkSame(s, i) ==
    [s EXCEPT ![i] = [@ EXCEPT
        !.sameFrame = TRUE,
        !.sameAsIndex = IF s[i - 1].sameFrame THEN s[i - 1].sameAsIndex ELSE i - 2]]

\* BuildSnapshots, lines 532-543, with StartAllThreads, lines 545-552.
BuildSnapshots(o) ==
    [o EXCEPT !.m_snapshots = [i \in 1..o.m_ssCount |-> NoSnapshot],
              !.m_quitScan = FALSE,
              !.demux = "head",
              !.viddec = [pc |-> IF o.hasVideo THEN "recv" ELSE "none",
                          avfrm |-> -1, inputEof |-> FALSE],
              !.genss = "head"]

\* Open, lines 30-46: ok tells whether OpenMedia and
\* PrepareOverviewVariables succeed; PrepareOverviewVariables (347-379)
\* sets m_ssCount only for a source with video. A failed Open closes the
\* object (lines 93-96).
OpenOverview(o, ok, hasVideo, ssCount) ==
    IF ~ok
    THEN [o EXCEPT !.m_demuxEof = FALSE, !.m_viddecEof = FALSE,
                   !.m_genSsEof = FALSE, !.m_opened = FALSE]
    ELSE [BuildSnapshots([o EXCEPT
              !.hasVideo = hasVideo,
              !.m_ssCount = IF hasVideo THEN ssCount ELSE @])
          EXCEPT !.m_opened = TRUE]

\* One turn of DemuxThreadProc, lines 622-718. At "head" the thread looks
\* for the first snapshot without a packet, seeks to its target and reads
\* the next video packet, whose pts is given; at "enq" it waits for room
\* in m_vidpktQ. For a source without video the turn does nothing (710).
OverviewDemuxStep(o, seekErr, readErr, pktPts) ==
    LET s == o.m_snapshots
        iter == FindSnapshot(s, -1)
        done == [o EXCEPT !.demux = "done", !.m_demuxEof = TRUE]
    IN  IF o.demux = "enq"
        THEN [o EXCEPT !.m_vidpktQ = Append(@, s[FindSnapshot(s, -1) - 1].ssFrmPts),
                       !.demux = "head"]
        ELSE IF o.m_quitScan THEN done
        ELSE IF ~o.hasVideo THEN o
        ELSE IF iter > Len(s) THEN done
        ELSE IF seekErr THEN done
        ELSE IF readErr THEN o
        ELSE LET s1 == [s EXCEPT ![iter] = [@ EXCEPT !.ssFrmPts = pktPts]]
             IN  IF iter # 1 /\ s[iter - 1].ssFrmPts = pktPts
                 THEN [o EXCEPT !.m_snapshots = MarkSame(s1, iter)]
                 ELSE [o EXCEPT !.m_snapshots = s1, !.demux = "enq"]

\* The pts of the packet that follows a seek to the target of the
\* snapshot at place iter: the key frame at or before the target, which is
\* not before the one found for the snapshot before.
PacketPts(s, iter) ==
    IF iter > Len(s) THEN {0}
    ELSE (IF iter = 1 THEN 0 ELSE s[iter - 1].ssFrmPts)..(iter - 1)

\* One turn of VideoDecodeThreadProc, lines 728-807. "recv" is one pass of
\* the loop of lines 735-768; "send" and "empty" are lines 773-802, the
\* reads of m_vidpktQ and of m_demuxEof being two steps. The codec gives a
\* frame when it holds more than DecoderDelay packets or is flushed.
OverviewDecodeStep(o, fferr) ==
    LET d == o.viddec
        done == [o EXCEPT !.viddec = [@ EXCEPT !.pc = "done"], !.m_viddecEof = TRUE]
    IN  IF d.pc = "recv"
        THEN IF d.avfrm = -1 /\ fferr # 0 THEN done
             ELSE IF d.avfrm = -1 /\ o.codec = <<>> /\ o.flushed THEN done
             ELSE LET gives == /\ d.avfrm = -1
                               /\ o.codec # <<>>
                               /\ (Len(o.codec) > DecoderDelay \/ o.flushed)
                      outfrm == IF gives THEN Head(o.codec) ELSE d.avfrm
                      rest == IF gives THEN Tail(o.codec) ELSE o.codec
                  IN  IF outfrm = -1
                      THEN [o EXCEPT !.viddec = [@ EXCEPT !.pc = "send"]]
                      ELSE IF Len(o.m_vidfrmQ) < OverviewQMax
                      THEN [o EXCEPT !.codec = rest,
                                     !.m_vidfrmQ = Append(@, outfrm),
                                     !.viddec = [@ EXCEPT !.avfrm = -1]]
                      ELSE [o EXCEPT !.codec = rest,
                                     !.viddec = [@ EXCEPT !.avfrm = outfrm]]
        ELSE IF d.pc = "send"
        THEN IF d.inputEof THEN [o EXCEPT !.viddec = [@ EXCEPT !.pc = "recv"]]
             ELSE IF o.m_vidpktQ # <<>>
             THEN IF fferr # 0 THEN done
                  ELSE [o EXCEPT !.codec = Append(@, Head(o.m_vidpktQ)),
                                 !.m_vidpktQ = Tail(@),
                                 !.viddec = [@ EXCEPT !.pc = "recv"]]
             ELSE [o EXCEPT !.viddec = [@ EXCEPT !.pc = "empty"]]
        ELSE IF o.m_demuxEof
        THEN [o EXCEPT !.flushed = TRUE,
                       !.viddec = [@ EXCEPT !.pc = "recv", !.inputEof = TRUE]]
        ELSE [o EXCEPT !.viddec = [@ EXCEPT !.pc = "recv"]]

\* The loop of lines 859-865.
RECURSIVE MarkFrom(_, _)
MarkFrom(s, iter) ==
    IF iter > Len(s) THEN s ELSE MarkFrom(MarkSame(s, iter), iter + 1)

\* The end of GenerateSsThreadProc, lines 852-876, for a list that is not
\* empty.
MarkRest(s) ==
    LET iter == FindSnapshot(s, -1)
    IN  IF iter # 1 THEN MarkFrom(s, iter)
        ELSE [i \in DOMAIN s |->
                 IF i = 1 THEN s[i]
                 ELSE [s[i] EXCEPT !.sameFrame = TRUE, !.sameAsIndex = 0]]

\* One turn of GenerateSsThreadProc, lines 814-877: the reads of m_vidfrmQ
\* (818) and of m_viddecEof (845) are two steps. With no snapshot at all
\* line 869 moves an iterator past the end of the list: passes tells
\* whether the thread gets through.
GenerateSsStep(o, passes) ==
    IF o.genss = "head"
    THEN IF o.m_quitScan THEN [o EXCEPT !.genss = "post"]
         ELSE IF o.m_vidfrmQ # <<>>
         THEN LET iter == FindSnapshot(o.m_snapshots, Head(o.m_vidfrmQ))
              IN  [o EXCEPT !.m_vidfrmQ = Tail(@),
                            !.m_snapshots =
                                IF iter > Len(@) THEN @
                                ELSE [@ EXCEPT ![iter] = [@ EXCEPT !.img = TRUE]]]
         ELSE [o EXCEPT !.genss = "empty"]
    ELSE IF o.genss = "empty"
    THEN [o EXCEPT !.genss = IF o.m_viddecEof THEN "post" ELSE "head"]
    ELSE IF o.m_snapshots = <<>> /\ ~passes
    THEN [o EXCEPT !.genss = "crashed"]
    ELSE [o EXCEPT !.m_snapshots = IF @ = <<>> THEN @ ELSE MarkRest(@),
                   !.m_genSsEof = TRUE,
                   !.genss = "done"]

\* A step on the media overview.
OverviewStep(o, op) ==
    /\ ovw' = o
    /\ call' = [op |-> op, pos |-> 0, ret |-> o.m_opened, out |-> <<>>]
    /\ UNCHANGED <<m_eventList, mut, trackVars, projVars, playerVars, ctlVars, rc, au>>

OverviewOpen(ok, hasVideo, ssCount) ==
    /\ ~ovw.m_opened
    /\ OverviewStep(OpenOverview(ovw, ok, hasVideo, ssCount), "MediaOverview::Open")

OverviewDemuxThread(seekErr, readErr) ==
    /\ ovw.demux \in {"head", "enq"}
    /\ ovw.demux = "enq" => Len(ovw.m_vidpktQ) < OverviewQMax
    /\ \E pktPts \in PacketPts(ovw.m_snapshots, FindSnapshot(ovw.m_snapshots, -1)) :
          OverviewStep(OverviewDemuxStep(ovw, seekErr, readErr, pktPts), "DemuxThreadProc")

OverviewVideoDecodeThread(fferr) ==
    /\ ovw.viddec.pc \in {"recv", "send", "empty"}
    /\ OverviewStep(OverviewDecodeStep(ovw, fferr), "VideoDecodeThreadProc")

GenerateSsThread(passes) ==
    /\ ovw.genss \in {"head", "empty", "post"}
    /\ OverviewStep(GenerateSsStep(ovw, passes), "GenerateSsThreadProc")

InitOverview ==
    /\ m_eventList = <<>>
    /\ call = NoCall
    /\ mut = Idle
    /\ InitTrackWith([num |-> 1000, den |-> 1])
    /\ InitProject
    /\ InitPlayerWith(FALSE, TRUE)
    /\ InitCtl
    /\ rc = CacheStart(MIN_CACHE_FRAME_INTERVAL, MAX_CACHE_SIZE, CACHE_SHRINK_SIZE, 0)
    /\ au = AudioStart(FALSE)
    /\ \E genSsEof \in BOOLEAN, ssCount \in 0..MaxSs :
          ovw = OverviewStart(genSsEof, ssCount)

NextOverview ==
    \/ \E ok, hasVideo \in BOOLEAN, ssCount \in 0..MaxSs :
          OverviewOpen(ok, hasVideo, ssCount)
    \/ \E seekErr, readErr \in BOOLEAN : OverviewDemuxThread(seekErr, readErr)
    \/ \E fferr \in {0, -1} : OverviewVideoDecodeThread(fferr)
    \/ \E passes \in BOOLEAN : GenerateSsThread(passes)

\* Each thread that can take a turn takes one.
FairOverview ==
    /\ WF_vars(\E seekErr, readErr \in BOOLEAN : OverviewDemuxThread(seekErr, readErr))
    /\ WF_vars(\E fferr \in {0, -1} : OverviewVideoDecodeThread(fferr))
    /\ WF_vars(\E passes \in BOOLEAN : GenerateSsThread(passes))

SpecOverview == InitOverview /\ [][NextOverview]_vars /\ FairOverview

(***************************************************************************)
(* Properties of the event stack.                                          *)
(***************************************************************************)
Mutators ==
    {"AddNewEvent", "RemoveEvent", "ChangeEventRange", "MoveEvent",
     "MoveAllEvents", "RestoreEventFromJson"}

\* Two time ranges <<start, end>> overlap.
RangesOverlap(aStart, aEnd, bStart, bEnd) == ~(aEnd <= bStart \/ bEnd <= aStart)

\* C1: after any sequence of AddNewEvent, ChangeEventRange, MoveEvent,
\* MoveAllEvents, RemoveEvent and JSON enroll calls, accepted or rejected,
\* every two distinct events a, b of the stack with a.z = b.z satisfy
\* a.end <= b.start or b.end <= a.start.
C1_NoOverlap ==
    \A i \in 1..Len(m_eventList), j \in 1..Len(m_eventList) :
        (i # j /\ m_eventList[i].m_z = m_eventList[j].m_z) =>
            \/ m_eventList[i].m_end <= m_eventList[j].m_start
            \/ m_eventList[j].m_end <= m_eventList[i].m_start

\* A rejected mutation on a stack that holds two events of one layer, each
\* with start < end.
C1_Witness ==
    /\ call.op \in Mutators /\ ~call.ret
    /\ \E i \in 1..Len(m_eventList), j \in 1..Len(m_eventList) :
          /\ i # j /\ m_eventList[i].m_z = m_eventList[j].m_z
          /\ m_eventList[i].m_start < m_eventList[i].m_end
          /\ m_eventList[j].m_start < m_eventList[j].m_end

\* C2: a rejected AddNewEvent, ChangeEventRange, MoveEvent or JSON enroll
\* (the call returns null or false) leaves the event list as it was: the
\* same events in the same order, each with the same id, start, end and z.
C2_RejectedLeavesList ==
    [][(call'.op \in Mutators /\ ~call'.ret) => m_eventList' = m_eventList]_vars

\* A rejected ChangeEventRange or MoveEvent on a stack of two events.
C2_Witness ==
    /\ call.op \in {"ChangeEventRange", "MoveEvent"} /\ ~call.ret
    /\ Len(m_eventList) >= 2

\* C3: AddNewEvent(id, start, end, z) succeeds exactly when start # end, no
\* event of the stack has that id and no event of layer z overlaps the
\* range [min(start, end), max(start, end)); the event stored on success
\* has start = min and end = max, and the other events stay.
C3_AddNewEvent ==
    \A id \in Ids, start \in Times, end \in Times, z \in Zs :
        LET r == AddNewEvent(m_eventList, id, start, end, z)
            lo == Min(start, end)
            hi == Max(start, end)
            accepted ==
                /\ start # end
                /\ \A k \in 1..Len(m_eventList) : m_eventList[k].m_id # id
                /\ \A k \in 1..Len(m_eventList) :
                      m_eventList[k].m_z = z =>
                          ~RangesOverlap(m_eventList[k].m_start,
                                         m_eventList[k].m_end, lo, hi)
        IN  /\ r.ret <=> accepted
            /\ r.ret =>
                  /\ Len(r.list) = Len(m_eventList) + 1
                  /\ Range(m_eventList) \subseteq Range(r.list)
                  /\ \E k \in 1..Len(r.list) :
                        /\ r.list[k].m_id = id /\ r.list[k].m_z = z
                        /\ r.list[k].m_start = lo /\ r.list[k].m_end = hi
            /\ ~r.ret => r.list = m_eventList

\* An accepted AddNewEvent after which an event of one layer overlaps in
\* time an event of another layer, and a rejected one next to two events of
\* one layer that touch.
C3_Witness ==
    /\ call.op = "AddNewEvent"
    /\ \/ /\ call.ret
          /\ \E i \in 1..Len(m_eventList), j \in 1..Len(m_eventList) :
                /\ m_eventList[i].m_z # m_eventList[j].m_z
                /\ m_eventList[i].m_start < m_eventList[i].m_end
                /\ m_eventList[j].m_start < m_eventList[j].m_end
                /\ RangesOverlap(m_eventList[i].m_start, m_eventList[i].m_end,
                                 m_eventList[j].m_start, m_eventList[j].m_end)
       \/ /\ ~call.ret
          /\ \E i \in 1..Len(m_eventList), j \in 1..Len(m_eventList) :
                /\ m_eventList[i].m_z = m_eventList[j].m_z
                /\ m_eventList[i].m_start < m_eventList[i].m_end
                /\ m_eventList[i].m_end = m_eventList[j].m_start
                /\ m_eventList[j].m_start < m_eventList[j].m_end

\* C4: no two events of one stack have the same id, after any sequence of
\* AddNewEvent, RestoreEventFromJson, RemoveEvent, MoveEvent,
\* ChangeEventRange and Event.ChangeId calls.
C4_UniqueIds ==
    \A i \in 1..Len(m_eventList), j \in 1..Len(m_eventList) :
        i # j => m_eventList[i].m_id # m_eventList[j].m_id

\* C5: every event held by a stack has start < end, also an event enrolled
\* from JSON (start = end is rejected, end < start is stored swapped).
C5_StartBeforeEnd ==
    \A i \in 1..Len(m_eventList) : m_eventList[i].m_start < m_eventList[i].m_end

\* The events of the stack that contain pos.
Effective(pos) == {e \in Range(m_eventList) : e.m_start <= pos /\ pos < e.m_end}

\* An event of the stack by its id.
EventOfId(id) == CHOOSE e \in Range(m_eventList) : e.m_id = id

\* C6: FilterImage(frame, pos) runs exactly the events with
\* start <= pos < end, each once, in the order z ascending then start
\* ascending, each at pos - event.start and on the output of the one
\* before; when no event contains pos the output is the input frame.
C6_FilterImage ==
    call.op = "FilterImage" =>
        LET ran == call.out
        IN  /\ {ran[k][1] : k \in 1..Len(ran)} = {e.m_id : e \in Effective(call.pos)}
            /\ Len(ran) = Cardinality(Effective(call.pos))
            /\ \A k \in 1..Len(ran) :
                  ran[k][2] = call.pos - EventOfId(ran[k][1]).m_start
            /\ \A k \in 1..Len(ran), l \in 1..Len(ran) :
                  k < l =>
                      LET a == EventOfId(ran[k][1])
                          b == EventOfId(ran[l][1])
                      IN  \/ a.m_z < b.m_z
                          \/ (a.m_z = b.m_z /\ a.m_start <= b.m_start)
            /\ (Effective(call.pos) = {} => ran = <<>>)

\* A FilterImage that ran two events, and one at the end of an event that
\* ran none.
C6_Witness ==
    /\ call.op = "FilterImage"
    /\ \/ Len(call.out) = 2
       \/ /\ call.out = <<>>
          /\ \E e \in Range(m_eventList) :
                e.m_start < e.m_end /\ call.pos = e.m_end

\* What the JSON round trip has to keep of an event.
Kept(e) ==
    [id |-> e.m_id, start |-> e.m_start, end |-> e.m_end, z |-> e.m_z,
     event_masks |-> e.m_ajnEventMasks,
     effect_mask_table |-> e.m_mapEffectMaskTable]

\* C10: for any stack reachable through the public operations,
\* LoadFromJson(SaveAsJson(stack)), the path of Clone, returns a stack (not
\* null) that holds the same events in the same order, each with the same
\* id, start, end, z, event-mask descriptors and per-node mask table.
C10_RoundTrip ==
    call.op = "Clone" =>
        /\ call.ret
        /\ Len(call.out) = Len(m_eventList)
        /\ \A k \in 1..Len(m_eventList) : Kept(call.out[k]) = Kept(m_eventList[k])

(***************************************************************************)
(* Properties of the masks of a video event.                               *)
(***************************************************************************)
\* C8: for every video event, after any sequence of SaveMask, RemoveMask
\* and load from JSON, the descriptor array and the rendered-alpha array
\* have the same length and are aligned: the alpha at index i is the one
\* rendered from, or supplied with, the descriptor at index i.
C8_MasksAligned ==
    \A k \in 1..Len(m_eventList) :
        LET e == m_eventList[k]
        IN  /\ Len(e.m_amEventMasks) = Len(e.m_ajnEventMasks)
            /\ \A i \in 1..Len(e.m_amEventMasks) :
                  e.m_amEventMasks[i].of = e.m_ajnEventMasks[i]

\* C9: SaveMask(j, pmMask, index) with index < 0 or index = count appends
\* the mask and returns true, the entries before keeping their indexes;
\* with 0 <= index < count it replaces the entry at index; with
\* index > count it fails and changes nothing. Stated for the calls whose
\* descriptor has a mask creator or comes with an image.
C9_SaveMaskIndex ==
    [][(call'.op = "SaveMask" /\ (call'.out.hasMat \/ call'.out.j # "bad")) =>
        LET index == call'.pos
            old == m_eventList[call'.out.i].m_ajnEventMasks
            new == m_eventList'[call'.out.i].m_ajnEventMasks
        IN  /\ (index < 0 \/ index = Len(old)) =>
                  (call'.ret /\ new = Append(old, call'.out.j))
            /\ (0 <= index /\ index < Len(old)) =>
                  (call'.ret /\ new = [old EXCEPT ![index + 1] = call'.out.j])
            /\ index > Len(old) => (~call'.ret /\ new = old)]_vars

(***************************************************************************)
(* Properties of the stack under concurrent calls.                         *)
(***************************************************************************)
\* C7: a FilterImage call that runs while AddNewEvent, ChangeEventRange or
\* MoveEvent runs on the same stack applies the effective events of the
\* stack as it was before the mutation or as it is after it, never a
\* mixture.
C7_ConsistentSnapshot ==
    (call.op = "FilterImage" /\ mut.pc # "idle") =>
        \/ call.out = FilterImage(mut.pre, <<>>, call.pos)
        \/ call.out = FilterImage(mut.post, <<>>, call.pos)

(***************************************************************************)
(* Properties of the video track.                                          *)
(***************************************************************************)
\* x lies strictly inside the time intersection of the clips a and b.
InsideOverlapOf(x, a, b) ==
    Max(a.start, b.start) < x /\ x < Min(ClipEnd(a), ClipEnd(b))

\* x lies strictly inside the intersection of two clips of the list that
\* are not the clip of the id `but`.
InsideOverlapBut(clips, x, but) ==
    \E i \in 1..Len(clips), j \in 1..Len(clips) :
        /\ i < j
        /\ clips[i].id # but /\ clips[j].id # but
        /\ InsideOverlapOf(x, clips[i], clips[j])

\* C11: after any sequence of InsertClip, MoveClip, ChangeClipRange and
\* RemoveClip calls, accepted or rejected, no clip of the track has its
\* start or its end strictly inside the time intersection of two other
\* clips of the track (there is no triple overlap).
C11_NoTripleOverlap ==
    \A k \in 1..Len(m_clips) :
        /\ ~InsideOverlapBut(m_clips, m_clips[k].start, m_clips[k].id)
        /\ ~InsideOverlapBut(m_clips, ClipEnd(m_clips[k]), m_clips[k].id)

\* C12: InsertClip rejects a clip exactly when its start or its end lies
\* strictly inside an overlap of two clips of the track; a rejected insert
\* leaves the clips, the overlaps, the duration and the clip's trackId as
\* they were; an accepted clip is on the track, and when it intersects no
\* other clip no overlap record involves it.
C12_InsertClip ==
    \A id \in ClipIds \ ClipIdsOf(m_clips), start \in ClipStarts, o \in OffsetPairs :
        LET hClip == NewClip(id, start, o[1], o[2])
            r == InsertClip(Track, hClip)
            inside == \/ InsideOverlapBut(m_clips, hClip.start, id)
                      \/ InsideOverlapBut(m_clips, ClipEnd(hClip), id)
            alone == \A k \in 1..Len(m_clips) : ~HasOverlap(hClip, m_clips[k])
        IN  /\ (r.exc = "invalid_argument") <=> inside
            /\ r.exc = "invalid_argument" => (r.trk = Track /\ r.clip = hClip)
            /\ r.exc = "none" =>
                  /\ ClipIdsOf(r.trk.m_clips) = ClipIdsOf(m_clips) \cup {id}
                  /\ r.clip.trackId = TrackId
                  /\ alone => \A k \in 1..Len(r.trk.m_overlaps) :
                                 id \notin OverlapKey(r.trk.m_overlaps[k])

\* An insert was rejected on a track of two clips that overlap, and a clip
\* that follows both of them would be accepted without an overlap.
C12_Witness ==
    /\ call.op = "InsertClip" /\ ~call.ret
    /\ Len(m_clips) = 2 /\ Len(m_overlaps) = 1
    /\ \E id \in ClipIds \ ClipIdsOf(m_clips), start \in ClipStarts, o \in OffsetPairs :
          LET r == InsertClip(Track, NewClip(id, start, o[1], o[2]))
          IN  /\ r.exc = "none"
              /\ Len(r.trk.m_overlaps) = 1
              /\ \A k \in 1..2 : ClipEnd(m_clips[k]) <= start

\* C13: the track duration is the maximum of the ends of the track's
\* clips, or 0 when the track has no clip.
C13_Duration ==
    /\ m_clips = <<>> => m_duration = 0
    /\ m_clips # <<>> =>
          /\ \A k \in 1..Len(m_clips) : ClipEnd(m_clips[k]) <= m_duration
          /\ \E k \in 1..Len(m_clips) : ClipEnd(m_clips[k]) = m_duration

(***************************************************************************)
(* Properties of reading a track.                                          *)
(***************************************************************************)
\* A step is a ReadVideoFrame call that returned a frame.
ReadStep == call'.op = "ReadVideoFrame" /\ m_readFrames' # m_readFrames

\* C14: with the direction fixed and no seek in between, the time stamp of
\* the frame a ReadVideoFrame call returns is not less (forward) or not
\* greater (reverse) than the time stamp of the frame the previous call
\* returned, whatever clips were inserted, moved or removed in between.
C14_Monotone ==
    [][(ReadStep /\ lastFrame.has) =>
          IF m_readForward THEN call'.out.ts >= lastFrame.ts
          ELSE call'.out.ts <= lastFrame.ts]_vars

\* A second read in reverse direction (a seek is never negative) on a track
\* that was edited to hold an overlap, and a read past a removed clip.
C14_Witness ==
    /\ call.op = "ReadVideoFrame"
    /\ lastFrame = [has |-> TRUE, ts |-> -1]
    /\ ~m_readForward
    /\ m_overlaps # <<>>

\* C15: right after SeekTo(p), a second SeekTo(p) leaves the track as it is
\* (frame index, clip read cursor, overlap read cursor), sets each clip's
\* own cursor to the same position again, and the first frame read
\* afterwards is the same, in both directions.
C15_SeekIdempotent ==
    (call.op = "SeekTo" /\ call.ret) =>
        LET again == SeekTo(Track, call.pos)
        IN  /\ again.exc = "none"
            /\ again.trk = Track
            /\ again.clipPos = ClipPosOf(m_clips, call.pos)
            /\ ReadVideoFrame(again.trk) = ReadVideoFrame(Track)

\* A seek in reverse direction to a position that later clips and overlaps
\* start after, at a frame rate that rounds the position down.
C15_Witness ==
    /\ call.op = "SeekTo" /\ call.ret
    /\ ~m_readForward
    /\ m_readOverlapIter.k = "at"
    /\ m_readClipIter.k = "at"
    /\ call.pos = 1
    /\ m_frameRate.num = 500

\* The overlaps and the clips of the track that contain a position.
OverlapsAt(readPos) ==
    {k \in 1..Len(m_overlaps) :
        m_overlaps[k].start <= readPos /\ readPos < m_overlaps[k].end}

ClipsAt(readPos) ==
    {k \in 1..Len(m_clips) :
        m_clips[k].start <= readPos /\ readPos < ClipEnd(m_clips[k])}

\* C16: after SeekTo, in either direction, every ReadVideoFrame at read
\* position readPos asks an overlap that contains readPos when there is
\* one; otherwise it asks a clip that contains readPos, at the local
\* position readPos - clip.start, when there is one; otherwise it returns
\* an empty frame with the time stamp readPos.
C16_ReadVideoFrame ==
    [][ReadStep =>
        LET readPos == ReadPosOf(m_readFrames, m_frameRate)
            out == call'.out
        IN  /\ out.ts = readPos
            /\ IF OverlapsAt(readPos) # {}
               THEN /\ out.src = "overlap"
                    /\ \E k \in OverlapsAt(readPos) :
                          /\ out.ids = OverlapKey(m_overlaps[k])
                          /\ out.pos = readPos - m_overlaps[k].start
               ELSE IF ClipsAt(readPos) # {}
               THEN /\ out.src = "clip"
                    /\ \E k \in ClipsAt(readPos) :
                          /\ out.ids = {m_clips[k].id}
                          /\ out.pos = readPos - m_clips[k].start
               ELSE out = EmptyFrame(readPos)]_vars

\* The pairs of ids of clips of the track whose time ranges intersect.
IntersectingPairs ==
    {{m_clips[i].id, m_clips[j].id} : i, j \in 1..Len(m_clips)}
    \cap {{m_clips[i].id, m_clips[j].id} :
             <<i, j>> \in {p \in (1..Len(m_clips)) \X (1..Len(m_clips)) :
                              /\ p[1] # p[2]
                              /\ HasOverlap(m_clips[p[1]], m_clips[p[2]])}}

\* The overlap list is what the clips of the track ask for.
OverlapsExact ==
    /\ \A k \in 1..Len(m_overlaps) :
          LET ov == m_overlaps[k]
          IN  /\ OverlapKey(ov) \in IntersectingPairs
              /\ \A a \in 1..Len(m_clips), b \in 1..Len(m_clips) :
                    (m_clips[a].id = ov.front /\ m_clips[b].id = ov.rear) =>
                        /\ ov.start = Max(m_clips[a].start, m_clips[b].start)
                        /\ ov.end = Min(ClipEnd(m_clips[a]), ClipEnd(m_clips[b]))
              /\ ov.end > ov.start
              /\ \A j \in 1..Len(m_overlaps) :
                    OverlapKey(m_overlaps[j]) = OverlapKey(ov) => j = k
    /\ \A pr \in IntersectingPairs :
          \E k \in 1..Len(m_overlaps) : OverlapKey(m_overlaps[k]) = pr
    /\ \A k \in 1..(Len(m_overlaps) - 1) :
          m_overlaps[k].start <= m_overlaps[k + 1].start

\* A step is an accepted edit of the track.
AcceptedEdit ==
    /\ call'.op \in {"InsertClip", "MoveClip", "ChangeClipRange", "RemoveClipById"}
    /\ call'.ret

\* C25: after every accepted InsertClip, MoveClip, ChangeClipRange or
\* RemoveClip the overlap list holds exactly one overlap for each pair of
\* clips of the track whose time ranges intersect and nothing else, each
\* with start = the larger start, end = the smaller end and end > start,
\* and the list is sorted by start.
C25_OverlapsExact ==
    [][AcceptedEdit => OverlapsExact']_vars

\* The clips and the overlaps a seek to pos in reverse direction may stop
\* at (pos - start >= 0), and in forward direction (pos - start < duration).
RevQualify(r, pos) == {k \in 1..Len(r) : pos - r[k].start >= 0}
FwdQualify(r, pos) == {k \in 1..Len(r) : pos - r[k].start < r[k].end - r[k].start}

\* C26: SeekTo(pos) in reverse direction sets the clip read iterator to the
\* last clip with pos - start >= 0 and the overlap read iterator to the
\* last overlap with pos - start >= 0; in forward direction it sets them
\* to the first clip and the first overlap with pos - start < duration, or
\* to end when none qualifies; in both directions every clip's own cursor
\* is set to pos - clip.start and the frame index to
\* floor(pos*num/(den*1000)).
C26_SeekTo ==
    [][(call'.op = "SeekTo" /\ call'.ret) =>
        LET pos == call'.pos
            clR == ClipRanges(m_clips)
            ovR == OverlapRanges(m_overlaps)
            Last(S) == CHOOSE k \in S : \A j \in S : k >= j
            First(S) == CHOOSE k \in S : \A j \in S : k <= j
            Want(S, n) == IF S = {} THEN n + 1
                          ELSE IF m_readForward THEN First(S) ELSE Last(S)
            cs == IF m_readForward THEN FwdQualify(clR, pos) ELSE RevQualify(clR, pos)
            os == IF m_readForward THEN FwdQualify(ovR, pos) ELSE RevQualify(ovR, pos)
        IN  /\ m_readClipIter' = ClipIterAt(m_clips, Want(cs, Len(m_clips)))
            /\ m_readOverlapIter' = OverlapIterAt(m_overlaps, Want(os, Len(m_overlaps)))
            /\ \A k \in 1..Len(m_clips) :
                  SeekTo(Track, pos).clipPos[m_clips[k].id] = pos - m_clips[k].start
            /\ m_readFrames' = (pos * m_frameRate.num) \div (m_frameRate.den * 1000)]_vars

(***************************************************************************)
(* Properties of the project.                                              *)
(***************************************************************************)
\* A step is the call op on the project.
ProjStep(op) == call'.op = op

\* The members of the Project object are what they were.
InMemoryUnchanged ==
    UNCHANGED <<m_bOpened, m_projName, m_projDir, m_projFilePath, m_projVer,
                m_jnProjContent>>

\* C17: on a project that is not opened, Save and Close(saveBefore), for
\* either saveBefore, return NOT_OPENED and change no state.
C17_NotOpened ==
    [][((ProjStep("Save") \/ ProjStep("Close")) /\ ~m_bOpened) =>
          call'.out.err = "NOT_OPENED" /\ UNCHANGED projVars]_vars

\* C18: a failed open is atomic. CreateNew over an existing directory
\* returns ALREADY_EXISTS, Load of a path that is not a file returns
\* FILE_INVALID, Load of a file that does not parse returns PARSE_FAILED,
\* and each leaves the members of the project as they were. The path of
\* Load is looked at on the disk as the call leaves it: Load of the open
\* project's own file writes that file first.
C18_FailedOpenAtomic ==
    [][/\ (ProjStep("CreateNew") /\ Exists(fs, JoinPath(BaseDir, call'.out.arg[1])))
          => call'.out.err = "ALREADY_EXISTS" /\ InMemoryUnchanged
       /\ (ProjStep("Load") /\ ~IsFile(fs', call'.out.arg))
          => call'.out.err = "FILE_INVALID" /\ InMemoryUnchanged
       /\ (ProjStep("Load") /\ IsFile(fs', call'.out.arg)
              /\ ~fs'[call'.out.arg].doc.parses)
          => call'.out.err = "PARSE_FAILED" /\ InMemoryUnchanged]_vars

\* C19: for an opened project whose content tree is a JSON object, Save,
\* then Close(false), then Load of the same file path each return OK, and
\* the loaded project has the same name, version tag, directory, file path
\* and content tree; a project made by CreateNew has the version tag
\* (major<<24)|(minor<<16).
C19_RoundTrip ==
    (m_bOpened /\ IsObject(m_jnProjContent)) =>
        LET s1 == Save(Proj)
            s2 == Close(s1.p, FALSE)
            s3 == Load(s2.p, m_projFilePath)
        IN  /\ s1.err = "OK" /\ s2.err = "OK" /\ s3.err = "OK"
            /\ InMemory(s3.p) = InMemory(Proj)
            /\ (call.op = "CreateNew" /\ call.ret) =>
                   m_projVer = BitOr(Shl(VER_MAJOR, 24), Shl(VER_MINOR, 16))

(***************************************************************************)
(* Properties of the player's queues.                                      *)
(***************************************************************************)
\* C20: every queue between two stages of the decode pipeline holds at most
\* its maximum length in force when the last item was pushed: the video
\* packet queue, the audio packet queue, the video frame queue, the audio
\* frame queue and the resampled frame queue, for sources with video only,
\* audio only and both.
C20_QueuesBounded ==
    /\ m_vidpktQ <= qMaxSize.vidpkt
    /\ m_audpktQ <= qMaxSize.audpkt
    /\ m_vidfrmQ <= qMaxSize.vidfrm
    /\ m_audfrmQ <= pushMax.audfrm
    /\ m_swrfrmQ <= pushMax.swrfrm


(***************************************************************************)
(* Properties of the player's calls and threads.                           *)
(***************************************************************************)
\* A turn of the render thread that sets the play position sets it to
\* (now - runStart) + posOffset - pausedDur, and none sets it while the
\* player is paused.
RenderClock ==
    call'.op = "thread" /\ m_playPos' # m_playPos
        => m_isPlaying /\ m_playPos' = PlayClock(Player)

\* A Play that resumes finds the clock where the Pause that stopped the
\* playing left it.
ResumesWhereItPaused ==
    call'.op = "Play" /\ ~m_isPlaying /\ hist.paused /\ m_isPlaying'
        => PlayClock(Player)' = hist.pausePos

\* C30: without audio the play position of a render iteration is
\* (now - runStart) + posOffset - pausedDur, it does not advance while the
\* player is paused, and for any sequence of Pause and Play calls the clock
\* a resuming Play leaves equals the clock at the Pause that first stopped
\* the playing: the whole paused time has gone into pausedDur.
C30_PausedTimeAccumulates == [][RenderClock /\ ResumesWhereItPaused]_vars

\* The time stamp of the frame a decode thread pushes at this step: of the
\* frame it holds, or of the frame the codec gives it.
PushedMts(kind) ==
    IF kind = "vid"
    THEN IF viddec.avfrmLoaded THEN avfrm.vid ELSE pts.vid
    ELSE IF auddec.avfrmLoaded THEN avfrm.aud ELSE pts.aud

\* C28: after Seek(pos, seekToI = false) and until the next seek, no video
\* frame and no audio frame with a time stamp before pos is pushed into the
\* video frame queue or the audio frame queue.
C28_NoFrameBeforeSeekPos ==
    [][hist.pos # -1 /\ ~hist.seekToI
           => /\ m_vidfrmQ' > m_vidfrmQ => PushedMts("vid") >= hist.pos
              /\ m_audfrmQ' > m_audfrmQ => PushedMts("aud") >= hist.pos]_vars

\* C29: after Seek(pos, seekToI = true), once the first video frame after
\* the seek is decoded, seekToMts is the time stamp of that frame, the frame
\* was not discarded, and the seekToI flag has been consumed exactly once.
C29_SeekToKeyFrame ==
    /\ hist.consumed <= 1
    /\ hist.pos # -1 /\ hist.seekToI /\ hist.vidSeen
           => /\ m_seekToMts = hist.vidFirst
              /\ hist.vidKept
              /\ hist.consumed = 1
              /\ ~m_isSeekToI

\* At this step avcodec_receive_frame or avcodec_send_packet has failed in
\* the decode thread of the kind, with an error that is neither EAGAIN nor
\* EOF.
DecodeFailed(kind) ==
    call'.op = "thread" /\ Len(call'.out) = 2 /\ call'.out[2] = kind

\* The decode thread of the kind has left its procedure.
DecodeStopped(kind) ==
    IF kind = "vid" THEN m_viddecThread.pc = "done" ELSE m_auddecThread.pc = "done"

\* C23: when a decoder fails with an error other than AGAIN or EOF, the
\* decode thread ends without trying again and the error string GetError
\* returns is set.
C23_DecodeErrorReported ==
    [][\A kind \in {"vid", "aud"} :
           DecodeFailed(kind) => DecodeStopped(kind)' /\ m_errMessage' # ""]_vars

\* The player is stopped: no thread is started, every queue is empty, the
\* player is not playing.
Stopped ==
    /\ \A th \in ThreadsOf(Player) : th = NoThread
    /\ m_vidpktQ = 0 /\ m_audpktQ = 0 /\ m_vidfrmQ = 0 /\ m_audfrmQ = 0
    /\ m_swrfrmQ = 0
    /\ ~m_isPlaying

\* The error string SetFFError leaves for the seek of a call.
SeekErrorOf(op) ==
    CASE op = "Seek" -> "avformat_seek_file(In Seek)"
      [] op = "Reset" -> "avformat_seek_file(In Reset)"
      [] OTHER -> "avformat_seek_file(In QuitSeekAsync)"

\* C22: when the seek of the demuxer inside Seek, Reset or QuitSeekAsync
\* gives a negative code, the call returns false, the error string is set
\* for that seek, and the player is left stopped: no thread running, every
\* queue empty, not playing.
C22_FailedSeekStops ==
    [][api.op \in {"Seek", "Reset", "QuitSeekAsync"} /\ AfterWait(-1, 0, 0)
           => /\ ~call'.ret
              /\ m_errMessage' = SeekErrorOf(api.op)
              /\ Stopped']_vars

\* A QuitSeekAsync whose seek failed has returned, the scrubbing having
\* begun on a playing player.
C22_Witness ==
    /\ call.op = "QuitSeekAsync"
    /\ ~call.ret
    /\ m_isPlayingBeforeSeek
    /\ m_errMessage = SeekErrorOf(call.op)
    /\ Stopped

\* C27: the flush of the queues, the flush of the codecs and the seek of
\* the demuxer happen only while no thread of the pipeline is running (a
\* thread that seeks the demuxer itself is not counted against its own
\* seek), threads are started only after them and only when none is
\* running, and after Seek returns true the player is playing iff it was
\* before the call.
C27_QuitJoinFlushRelaunch ==
    [][/\ \A i \in DOMAIN call'.out :
              call'.out[i] \in {"FlushAllQueues", "avcodec_flush_buffers",
                                "avformat_seek_file", "StartAllThreads"}
                  => /\ call'.op # "thread" => ~Running(m_demuxThread)
                     /\ ~Running(m_viddecThread) /\ ~Running(m_auddecThread)
                     /\ ~Running(m_audswrThread) /\ ~Running(m_renderThread)
       /\ \A i, j \in DOMAIN call'.out :
              call'.out[i] = "StartAllThreads" /\ j # i => j < i
       /\ api.op = "Seek" /\ api'.op = "none" /\ call'.ret
              => m_isPlaying' = api.isPlaying]_vars

\* C24: QuitSeekAsync called during scrubbing seeks the demuxer to the
\* target of the last SeekAsync, clears the seeking state and leaves the
\* player playing iff it was playing when the first SeekAsync of the
\* session was called, whatever Play and Pause did in between.
C24_QuitSeekAsyncRestores ==
    [][api.op = "QuitSeekAsync" /\ api'.op = "none"
           => /\ \E i \in DOMAIN call'.out : call'.out[i] = "avformat_seek_file"
              /\ SeekTarget(Player) = hist.target
              /\ ~m_isSeeking'
              /\ m_isPlaying' = hist.scrub]_vars

\* C21: once WaitAllThreadsQuit has set the quit flag, every thread of the
\* pipeline that is running leaves its procedure after finitely many
\* steps, whatever the queues hold, and the call that waits (Seek, Reset,
\* Close, SeekAsync, QuitSeekAsync) completes.
C21_QuitTerminates ==
    /\ m_quitPlay ~> AllJoined(Player)
    /\ (api.op # "none") ~> (api.op = "none")

\* The quit flag is set with a thread inside a loop and its output queue
\* full: a decode thread in its receive loop holding a frame, or the
\* resampler with frames waiting, while the demux thread has left already.
C21_Witness ==
    /\ m_quitPlay
    /\ api.op # "none"
    /\ ~Running(m_demuxThread)
    /\ \/ /\ InProc(m_viddecThread, "VideoDecodeThreadProc")
          /\ m_viddecThread.pc = "recv"
          /\ viddec.avfrmLoaded
          /\ m_vidfrmQ = qMaxSize.vidfrm
       \/ /\ InProc(m_audswrThread, "SwrThreadProc")
          /\ m_audfrmQ > 0
          /\ m_swrfrmQ = qMaxSize.swrfrm

\* C36: a MoveClip or ChangeClipRange that throws invalid_argument leaves
\* the track as it was: the clips with their start and offsets, their
\* order, the overlap list and the duration of the track.
C36_RejectedEditKeepsTrack ==
    [][call'.op \in {"MoveClip", "ChangeClipRange"} /\ ~call'.ret
           => /\ m_clips' = m_clips
              /\ m_overlaps' = m_overlaps
              /\ m_duration' = m_duration]_vars

\* C39: after CreateNew returns OK the content tree of the project is
\* empty, whether or not another project was open before the call.
C39_CreateNewStartsEmpty ==
    [][ProjStep("CreateNew") /\ call'.ret => m_jnProjContent' = JsonNull]_vars

(***************************************************************************)
(* Properties of the frame cache.                                          *)
(***************************************************************************)
\* The frames that can come out of the queue next.
NextTimestamps ==
    IF rc.spacing = 0 THEN 0..MaxCacheTs ELSE {rc.fed * rc.spacing}

\* The entries of s at least as close to pos as every entry of s.
Closest(s, pos) ==
    {x \in Range(s) : \A y \in Range(s) : ~Farther(x, y, pos)}

\* s is what is left of full when entries are taken from its two ends.
LeftOfEnds(s, full) ==
    \E n \in 0..(Len(full) - Len(s)) : s = SubSeq(full, n + 1, n + Len(s))

\* The cache holds no more than its maximum, and an insertion that makes
\* it exceed the maximum leaves exactly the shrink size, taken from the
\* ends, with an entry closest to the position of this turn still there.
CacheBounded ==
    /\ Len(rc.vidMatCache) <= rc.k.maxSize
    /\ \A timestamp \in NextTimestamps :
           LET pushed == Append(rc.vidMatCache, timestamp)
               after == CacheFrame(rc, timestamp).vidMatCache
           IN  ~SkipsFrame(rc, timestamp) /\ Len(pushed) > rc.k.maxSize
                   => /\ Len(after) = rc.k.shrinkSize
                      /\ LeftOfEnds(after, pushed)
                      /\ Closest(pushed, rc.currSeekPos) \cap Range(after) # {}

\* The feed is over and the turn that took its last frame has ended.
FeedDone == rc.spacing > 0 /\ rc.fed = FeedFrames /\ rc.pc = "head"

\* After the feed the cache has at most CACHE_SHRINK_SIZE frames and one
\* within 0.5 s of the position.
FeedResult ==
    /\ Len(rc.vidMatCache) <= CACHE_SHRINK_SIZE
    /\ \E i \in DOMAIN rc.vidMatCache :
           Dist(rc.vidMatCache[i], FeedTarget) <= MIN_CACHE_FRAME_INTERVAL

\* C32 as stated: the cache never holds more than its maximum; an
\* insertion that exceeds it shrinks the cache to exactly the shrink size
\* by discarding end entries, never all the entries closest to the
\* position; and 80 frames fed with the position held at 4.0 s leave at
\* most 48 frames, one of them within 0.5 s of 4.0 s.
C32_CacheShrink ==
    /\ CacheBounded
    /\ FeedDone => FeedResult

\* C32 amended: as above, the feed being 80 frames that span 8 s (one every
\* 100 ms).
C32_CacheShrinkOfFeed ==
    /\ CacheBounded
    /\ FeedDone /\ rc.spacing = 1 => FeedResult

\* An insertion has just shrunk the cache of the code's sizes, and the
\* scaled cache is full with a frame to come that will shrink it.
C32_Witness ==
    \/ /\ rc.spacing = MaxSpacing
       /\ rc.fed = MAX_CACHE_SIZE + 1
       /\ Len(rc.vidMatCache) = CACHE_SHRINK_SIZE
    \/ /\ FeedDone /\ rc.spacing = 1 /\ rc.m_vidMat = FeedTarget

\* C33: a frame within the interval of an entry of the cache is skipped;
\* any two entries of the cache differ by the interval at least; at the
\* end of every turn of the render loop the cache is sorted by time stamp.
C33_CacheSeparated ==
    /\ \A timestamp \in NextTimestamps :
           (\E i \in DOMAIN rc.vidMatCache :
                Dist(rc.vidMatCache[i], timestamp) < rc.k.interval)
               => CacheFrame(rc, timestamp) = rc
    /\ \A i, j \in DOMAIN rc.vidMatCache :
           i # j => Dist(rc.vidMatCache[i], rc.vidMatCache[j]) >= rc.k.interval
    /\ rc.pc = "head" =>
           \A i, j \in DOMAIN rc.vidMatCache :
               i < j => rc.vidMatCache[i] < rc.vidMatCache[j]

\* The cache is full and not in order inside a turn, with a frame to come
\* that is too close to an entry.
C33_Witness ==
    /\ rc.spacing = 0
    /\ rc.pc = "drain"
    /\ Len(rc.vidMatCache) = MaxCacheSize
    /\ rc.vidMatCache[1] > rc.vidMatCache[MaxCacheSize]
    /\ \E timestamp \in NextTimestamps : SkipsFrame(rc, timestamp)

\* C34: at the end of a turn of the render loop in which the position is
\* set, the cache is not empty and the position or the cache has changed,
\* the published frame is an entry of the cache, as close to the position
\* as any entry.
C34_ClosestPublished ==
    [][(/\ rc.pc = "drain" /\ rc'.pc = "head"
        /\ rc.currSeekPos # -1
        /\ rc'.vidMatCache # <<>>
        /\ (rc.currSeekPos # rc.prevSeekPos \/ rc.cacheUpdated))
           => rc'.m_vidMat \in Closest(rc'.vidMatCache, rc.currSeekPos)]_vars

\* The position has moved back and the cursor with it, to the earlier of
\* two entries equally close, the cache not having changed in the turn.
C34_Witness ==
    /\ rc.spacing = 0
    /\ rc.pc = "head"
    /\ ~rc.cacheUpdated
    /\ rc.currSeekPos = 3
    /\ rc.m_vidMat = 2
    /\ \E i \in DOMAIN rc.vidMatCache : rc.vidMatCache[i] = 4
    /\ rc.vidMatCache[Len(rc.vidMatCache)] > 4


(***************************************************************************)
(* Properties of the play position after a seek.                           *)
(***************************************************************************)
\* A turn of the render thread of a playing player: the only step that
\* writes m_playPos while the player is opened.
RenderTurn ==
    /\ ~m_quitPlay /\ m_isPlaying
    /\ \E shows \in BOOLEAN : RenderThread(shows)

\* C38: on a source with video only, after Seek(pos, seekToI = false) has
\* returned true, every turn of the render thread of the playing player
\* leaves m_playPos at pos or after it, and every turn after the first
\* one that found a frame does not move m_playPos back.
C38_PlayPosAfterSeek ==
    [][RenderTurn /\ hist.pos # -1
           => /\ m_playPos' >= hist.pos
              /\ ~m_isAfterSeek => m_playPos' >= m_playPos]_vars


(***************************************************************************)
(* Properties of scrubbing under the other calls.                          *)
(***************************************************************************)
\* C37: whenever IsSeeking() is true and no call is in progress, the demux
\* thread runs DemuxThreadProc_SeekAsync and the render thread runs
\* RenderThreadProc_SeekAsync, under any interleaving of SeekAsync with
\* Seek, Reset, Play, QuitSeekAsync and Close.
C37_ScrubbingThreadsRun ==
    m_isSeeking /\ api.op = "none"
        => /\ m_demuxThread.proc = "DemuxThreadProc_SeekAsync"
           /\ m_renderThread.proc = "RenderThreadProc_SeekAsync"


(***************************************************************************)
(* Properties of the end of the source.                                    *)
(***************************************************************************)
\* The stages after the demuxer have ended with their EOF flags set and
\* nothing is left in a queue.
AllDrained ==
    /\ m_vidpktQ = 0 /\ m_audpktQ = 0
    /\ m_vidfrmQ = 0 /\ m_audfrmQ = 0 /\ m_swrfrmQ = 0
    /\ streams.video => viddec.phase = "eof"
    /\ streams.audio => auddec.phase = "eof" /\ m_audswrThread.pc = "done"

\* A stage has ended only after the stage before it has, with its input
\* queue empty.
EndsInOrder ==
    /\ viddec.phase = "eof" => demux.m_demuxEof /\ m_vidpktQ = 0
    /\ auddec.phase = "eof" => demux.m_demuxEof /\ m_audpktQ = 0
    /\ m_audswrThread.proc # "none" /\ m_audswrThread.pc = "done"
           => auddec.phase = "eof" /\ m_audfrmQ = 0

\* C31: while the player is playing, once the demuxer has reached the end
\* of the source every queued packet is decoded and every frame consumed,
\* and the video decode, audio decode and resample stages end with their
\* EOF flags set, each only after the stage before it has signalled EOF
\* and its input queue is empty.
C31_EofPropagates ==
    /\ (demux.m_demuxEof /\ m_isPlaying) ~> AllDrained
    /\ []EndsInOrder


(***************************************************************************)
(* Properties of the owners of the audio frames.                           *)
(***************************************************************************)
\* Where a frame is: in a queue, with the byte stream, or with a call of
\* Read that has popped it.
AudioHolders ==
    au.m_audfrmQ \o au.m_swrfrmQ
        \o (IF au.m_unconsumedAudfrm # 0 THEN <<au.m_unconsumedAudfrm>> ELSE <<>>)
        \o (IF au.read.pc = "copy" THEN <<au.read.audfrm>> ELSE <<>>)

\* C35: every audio frame that has entered a queue has one owner at a
\* time and is released once: no frame is released twice or used after
\* its release, no queue is popped when empty, no frame is in two places
\* at once, a frame that has an owner has not been released and a frame
\* without an owner has, with Read running while Seek, Reset or Close
\* flush the queues, with and without the pass-through of the resampler.
C35_OneOwnerOneRelease ==
    /\ au.fault = ""
    /\ \A i, j \in DOMAIN AudioHolders : i # j => AudioHolders[i] # AudioHolders[j]
    /\ \A frm \in 1..au.made : frm \in au.freed <=> frm \notin Range(AudioHolders)


(***************************************************************************)
(* Properties of the media overview.                                       *)
(***************************************************************************)
\* The three threads have ended and IsDone() (123-126) gives true.
OverviewDone ==
    /\ ovw.demux = "done"
    /\ ovw.viddec.pc \in {"none", "done"}
    /\ ovw.genss = "done"
    /\ ovw.m_genSsEof

\* Every snapshot marked sameFrame names a snapshot of smaller index that
\* is not marked.
SameFrameRefers ==
    \A i \in DOMAIN ovw.m_snapshots :
        ovw.m_snapshots[i].sameFrame =>
            /\ ovw.m_snapshots[i].sameAsIndex < i - 1
            /\ ~ovw.m_snapshots[ovw.m_snapshots[i].sameAsIndex + 1].sameFrame

\* C40: after Open has returned true the generation of the snapshots
\* finishes without Close: the demux, decode and snapshot threads end and
\* IsDone() becomes true, with and without a video stream; and when it
\* is done every snapshot marked sameFrame refers through sameAsIndex to a
\* snapshot of smaller index that is not marked sameFrame.
C40_OverviewFinishes ==
    /\ ovw.m_opened ~> OverviewDone
    /\ [](ovw.m_opened /\ OverviewDone => SameFrameRefers)

====
